---- MODULE Spec2Model ----
(***************************************************************************)
(* A model of the FeInt compiler (AST -> chunk) and virtual machine.       *)
(*                                                                         *)
(* Addresses, constant indices and scope-tree pointers are 0-based as in   *)
(* the source; the TLA+ sequences that hold them are 1-based, so address a *)
(* is element a + 1.                                                       *)
(***************************************************************************)
EXTENDS Integers, Sequences, FiniteSets, TLC

VARIABLES
    program,      \* the ast::Program (or hand-built chunk) handed to the executor
    incremental,  \* Executor.incremental: REPL session (TRUE) or one file
    chunk,        \* the module chunk being executed
    comp,         \* what compile() returned: error, has_main, the visitors' locals
    consts,       \* RuntimeContext: the constants pool
    funcs,        \* the heap of Func objects (name, params, chunk)
    ns_stack,     \* RuntimeContext: the namespace stack
    value_stack,  \* VM.value_stack
    scope_stack,  \* VM.scope_stack
    frames,       \* the active (nested) calls of VM::execute: chunk and ip
    result,       \* what the outermost VM::execute returned
    pre,          \* stack sizes immediately before the outermost execute
    steps,        \* instructions executed by the current execute
    runs,         \* execute calls made on this VM so far
    text,         \* the whole input of the scanner
    source,       \* Scanner.source: the input not yet consumed
    queue,        \* Scanner.queue
    indent_level, \* Scanner.indent_level
    inline_scope_stack,  \* Scanner.inline_scope_stack: the token before each `->`, and where
    bracket_stack,       \* Scanner.bracket_stack: the opening brackets
    previous_token,      \* Scanner.previous_token
    tokens,       \* the tokens the scanner's iterator has returned
    scan_err,     \* the kind of the ScanErr the iterator has returned, "" when none
    scan_err_n,   \* the number that error kind carries, 0 when it carries none
    scan_err_loc, \* the location of that error: a position in the input, 0 when none
    number,       \* the data of the Int or Float token last queued
    overflow_checks,  \* the build: integer overflow panics (TRUE) or wraps (FALSE)
    token_stream, \* Parser.token_stream: the tokens the parser has not taken yet
    precedence,   \* Parser.precedence: the current operator precedence
    parsed,       \* the statements Parser::statements has collected
    parse_result, \* what Parser::parse returned: "Ok", an error kind, "" before
    prompt,       \* the REPL: reading at the primary prompt, at the `+` prompt, or exited
    repl_input,   \* the lines accumulated at the `+` prompt, the first line included
    blank_line_count,  \* blank_line_count of the loop at the `+` prompt
    exe_result,   \* what execute_text returned to the last Repl::eval
    no_continue,  \* the no_continue argument of the last Repl::eval
    exit_result,  \* what Repl::run returned
    evals,        \* evaluations of code the REPL has made
    diagnostic,   \* the executor printed a diagnostic for the error of the last eval
    evaluated,    \* the text the last eval gave to execute_text, line by line
    operation,    \* an operation of Int: the method, self and rhs
    outcome       \* what the operation returned, or that it panicked

vm_vars == <<program, incremental, chunk, comp, consts, funcs, ns_stack,
             value_stack, scope_stack, frames, result, pre, steps, runs>>

scanner_vars == <<text, source, queue, indent_level, inline_scope_stack, bracket_stack,
                  previous_token, tokens, scan_err, scan_err_n, scan_err_loc,
                  number, overflow_checks>>

parser_vars == <<token_stream, precedence, parsed, parse_result>>

repl_vars == <<prompt, repl_input, blank_line_count, exe_result, no_continue, exit_result,
               evals, diagnostic, evaluated>>

int_vars == <<operation, outcome>>

\* the scanner, the parser, the REPL and the operation of Int, which the VM's
\* steps leave alone
front_vars == <<scanner_vars, parser_vars, repl_vars, int_vars>>

\* what the scanner's steps for words, layout and brackets leave alone
fixed == <<vm_vars, text, number, overflow_checks, parser_vars, repl_vars, int_vars>>

vars == <<vm_vars, scanner_vars, parser_vars, repl_vars, int_vars>>

\* ------------------------------------------------------------------------
\* Bounds of the model

\* instructions one execute may run before the model stops following it
MaxSteps == 44
\* indentation levels a generated line may have
MaxIndent == 2
\* lines of a generated text
MaxLines == 3
\* brackets in a generated text of brackets
MaxBrackets == 4
\* digits in a generated number
MaxDigits == 3
\* statements in a generated block body
MaxStmts == 2
\* execute calls in one incremental (REPL) session
MaxRuns == 2

\* ------------------------------------------------------------------------
\* Objects

Obj(t, v) == [t |-> t, v |-> v]
NilObj == Obj("Nil", 0)
TrueObj == Obj("Bool", 1)
FalseObj == Obj("Bool", 0)
IntObj(n) == Obj("Int", n)
FuncObj(fid) == Obj("Func", fid)
\* the mark of a name that a namespace does not hold
Undeclared == Obj("Undeclared", 0)

bool_obj_from_bool(b) == IF b THEN TrueObj ELSE FalseObj

\* ------------------------------------------------------------------------
\* Instructions

Inst(op, a, b, c, s) == [op |-> op, a |-> a, b |-> b, c |-> c, s |-> s]
NoOp == Inst("NoOp", 0, 0, 0, "")
Truncate(size) == Inst("Truncate", size, 0, 0, "")
LoadConst(i) == Inst("LoadConst", i, 0, 0, "")
ScopeStart == Inst("ScopeStart", 0, 0, 0, "")
ScopeEnd == Inst("ScopeEnd", 0, 0, 0, "")
DeclareVar(name) == Inst("DeclareVar", 0, 0, 0, name)
AssignVar(name) == Inst("AssignVar", 0, 0, 0, name)
LoadVar(name) == Inst("LoadVar", 0, 0, 0, name)
Jump(addr, k) == Inst("Jump", addr, 0, k, "")
JumpIf(addr, k) == Inst("JumpIf", addr, 0, k, "")
JumpIfNot(addr, k) == Inst("JumpIfNot", addr, 0, k, "")
JumpIfElse(a1, a2, k) == Inst("JumpIfElse", a1, a2, k, "")
UnaryOp(op) == Inst("UnaryOp", 0, 0, 0, op)
BinaryOp(op) == Inst("BinaryOp", 0, 0, 0, op)
Call(n) == Inst("Call", n, 0, 0, "")
Return == Inst("Return", 0, 0, 0, "")
Halt(code) == Inst("Halt", code, 0, 0, "")
HaltTop == Inst("HaltTop", 0, 0, 0, "")
\* Placeholder(addr, inst, message): s names the instruction it stands for
Placeholder(addr, inner) == Inst("Placeholder", addr, 0, 0, inner)
BreakPlaceholder(addr, depth) == Inst("BreakPlaceholder", addr, depth, 0, "")
ContinuePlaceholder(addr, depth) == Inst("ContinuePlaceholder", addr, depth, 0, "")

At(ch, addr) == ch[addr + 1]
SetAt(ch, addr, inst) == [ch EXCEPT ![addr + 1] = inst]

\* ------------------------------------------------------------------------
\* AST

Literal(lk, v) == [k |-> "Literal", lk |-> lk, v |-> v]
LitNil == Literal("Nil", 0)
LitTrue == Literal("Bool", 1)
LitFalse == Literal("Bool", 0)
LitInt(n) == Literal("Int", n)
LitEllipsis == Literal("Ellipsis", 0)
Ident(name) == [k |-> "Ident", ik |-> "Ident", name |-> name]
SpecialIdent(name) == [k |-> "Ident", ik |-> "SpecialIdent", name |-> name]
BinExpr(a, op, b) == [k |-> "BinaryOp", a |-> a, op |-> op, b |-> b]
UnExpr(op, a) == [k |-> "UnaryOp", op |-> op, a |-> a]
Assign(lhs, rhs) == BinExpr(lhs, "Assign", rhs)
Block(statements) == [k |-> "Block", statements |-> statements]
\* branches: a sequence of <<condition, block statements>>
Conditional(branches, has_default, default) ==
    [k |-> "Conditional", branches |-> branches,
     has_default |-> has_default, default |-> default]
Loop(expr, statements) == [k |-> "Loop", expr |-> expr, statements |-> statements]
Func(params, statements) == [k |-> "Func", params |-> params, statements |-> statements]
CallExpr(callable, args) == [k |-> "Call", callable |-> callable, args |-> args]

SJump(name) == [sk |-> "Jump", name |-> name]
SLabel(name, expr) == [sk |-> "Label", name |-> name, expr |-> expr]
SBreak(expr) == [sk |-> "Break", expr |-> expr]
SContinue == [sk |-> "Continue"]
SExpr(expr) == [sk |-> "Expr", expr |-> expr]

\* ------------------------------------------------------------------------
\* RuntimeContext: the constants pool

\* indices 0, 1, 2 are nil, true, false
InitConsts == <<NilObj, TrueObj, FalseObj>>

\* a pool that puts a new constant first
ctx_add_const_first(pool, val) == <<val>> \o pool

ctx_add_const(pool, val) == Append(pool, val)

\* ------------------------------------------------------------------------
\* ScopeTree (compiler side)

Scope(kind, parent) ==
    [kind |-> kind, parent |-> parent, labels |-> <<>>, jumps |-> <<>>]

ScopeTree_new == <<Scope("Module", -1)>>

in_global_scope(v) == v.pointer = 0

RECURSIVE scope_depth_of(_, _)
scope_depth_of(storage, idx) ==
    IF storage[idx + 1].parent < 0 THEN 0
    ELSE 1 + scope_depth_of(storage, storage[idx + 1].parent)

has_label(scope, name) == \E i \in 1..Len(scope.labels) : scope.labels[i].name = name
label_addr(scope, name) ==
    (CHOOSE i \in 1..Len(scope.labels) : scope.labels[i].name = name)

\* Scope::find_label: the label in this scope or in an enclosing scope,
\* never across a function's boundary; <<>> when there is none, else
\* <<label address, depth of the label's scope>>.
RECURSIVE find_label(_, _, _)
find_label(storage, idx, name) ==
    IF has_label(storage[idx + 1], name)
    THEN <<storage[idx + 1].labels[label_addr(storage[idx + 1], name)].addr,
           scope_depth_of(storage, idx)>>
    ELSE IF storage[idx + 1].kind = "Func" \/ storage[idx + 1].parent < 0 THEN <<>>
    ELSE find_label(storage, storage[idx + 1].parent, name)

is_leaf(storage, idx) == \A j \in 1..Len(storage) : storage[j].parent # idx

RECURSIVE path_up(_, _)
path_up(storage, idx) ==
    IF storage[idx + 1].parent < 0 THEN <<idx>>
    ELSE <<idx>> \o path_up(storage, storage[idx + 1].parent)

\* ScopeTree::walk_up: the scopes in the order they are visited, from each
\* leaf up to the root.
RECURSIVE walk_up_order(_, _)
walk_up_order(storage, idx) ==
    IF idx >= Len(storage) THEN <<>>
    ELSE (IF is_leaf(storage, idx) THEN path_up(storage, idx) ELSE <<>>)
         \o walk_up_order(storage, idx + 1)

\* ------------------------------------------------------------------------
\* Compiler: Visitor

Visitor_new(pool, heap) ==
    [chunk |-> <<>>, storage |-> ScopeTree_new, pointer |-> 0,
     scope_depth |-> 0, has_main |-> FALSE,
     consts |-> pool, funcs |-> heap, err |-> "", log |-> <<>>]

push(v, inst) == [v EXCEPT !.chunk = Append(@, inst)]

push_const(v, index) == push(v, LoadConst(index))

add_const(v, val) ==
    push_const([v EXCEPT !.consts = ctx_add_const(@, val)], Len(v.consts))

enter_scope(v, kind) ==
    [v EXCEPT !.storage = Append(@, Scope(kind, v.pointer)),
              !.pointer = Len(v.storage),
              !.scope_depth = @ + 1]

exit_scope(v) ==
    [v EXCEPT !.pointer = v.storage[v.pointer + 1].parent,
              !.scope_depth = @ - 1]

fail(v, kind) == [v EXCEPT !.err = kind]

\* `?` on the visit before, then push
push_ok(v, inst) == IF v.err # "" THEN v ELSE push(v, inst)

\* ScopeTree::add_jump, in the current scope
add_jump(v, name, addr) ==
    [v EXCEPT !.storage[v.pointer + 1].jumps = Append(@, [name |-> name, addr |-> addr])]

\* ScopeTree::add_label, in the current scope; a name the scope holds
\* already is refused
add_label(v, name, addr) ==
    IF has_label(v.storage[v.pointer + 1], name)
    THEN fail(v, "DuplicateLabelInScope")
    ELSE [v EXCEPT !.storage[v.pointer + 1].labels =
                      Append(@, [name |-> name, addr |-> addr])]

RECURSIVE visit_expr(_, _, _)
RECURSIVE visit_statements(_, _)
RECURSIVE visit_branches(_, _, _)

\* visit_break after the break's expression: the placeholder
break_placeholder(v) ==
    IF v.err # "" THEN v
    ELSE [push(v, BreakPlaceholder(Len(v.chunk), v.scope_depth))
            EXCEPT !.log = Append(@, [what |-> "break", addr |-> Len(v.chunk),
                                      depth |-> v.scope_depth])]

visit_break(v, expr) == break_placeholder(visit_expr(v, expr, ""))

\* visit_continue after its LoadConst(0): the placeholder
continue_placeholder(v) ==
    [push(v, ContinuePlaceholder(Len(v.chunk), v.scope_depth))
       EXCEPT !.log = Append(@, [what |-> "continue", addr |-> Len(v.chunk),
                                 depth |-> v.scope_depth])]

visit_continue(v) == continue_placeholder(push(v, LoadConst(0)))

\* a label statement after its expression
label_end(v, name, addr) == IF v.err # "" THEN v ELSE add_label(v, name, addr)

visit_statement(v, node) ==
    CASE node.sk = "Jump" ->
           add_jump(push(v, Placeholder(0, "Jump")), node.name, Len(v.chunk))
      [] node.sk = "Label" ->
           label_end(visit_expr(v, node.expr, ""), node.name, Len(v.chunk))
      [] node.sk = "Break" -> visit_break(v, node.expr)
      [] node.sk = "Continue" -> visit_continue(v)
      [] node.sk = "Expr" -> visit_expr(v, node.expr, "")

visit_statements(v, statements) ==
    IF v.err # "" \/ statements = <<>> THEN v
    ELSE visit_statements(visit_statement(v, Head(statements)), Tail(statements))

RECURSIVE visit_exprs(_, _)
visit_exprs(v, exprs) ==
    IF v.err # "" \/ exprs = <<>> THEN v
    ELSE visit_exprs(visit_expr(v, Head(exprs), ""), Tail(exprs))

visit_literal(v, node) ==
    CASE node.lk = "Nil" -> push_const(v, 0)
      [] node.lk = "Bool" /\ node.v = 1 -> push_const(v, 1)
      [] node.lk = "Bool" /\ node.v = 0 -> push_const(v, 2)
      [] node.lk = "Ellipsis" -> v
      [] node.lk = "Int" -> add_const(v, IntObj(node.v))

visit_ident(v, node) == push(v, LoadVar(node.name))

visit_assignment(v, name_expr, value_expr) ==
    IF (name_expr.k = "Ident" /\ name_expr.ik = "Ident")
       \/ (name_expr.k = "Ident" /\ name_expr.ik = "SpecialIdent"
           /\ name_expr.name = "$main" /\ in_global_scope(v))
    THEN push_ok(visit_expr(push(v, DeclareVar(name_expr.name)), value_expr,
                            name_expr.name),
                 AssignVar(name_expr.name))
    ELSE IF name_expr.k = "Ident" /\ name_expr.ik = "SpecialIdent"
    THEN fail(v, "CannotAssignSpecialIdent")
    ELSE fail(v, "ExpectedIdent")

\* block_end of a compiler that leaves the ScopeEnd out
block_end_without_scope_end(v) == IF v.err # "" THEN v ELSE exit_scope(v)

\* visit_block after its statements
block_end(v) == IF v.err # "" THEN v ELSE exit_scope(push(v, ScopeEnd))

visit_block(v, statements) ==
    block_end(visit_statements(enter_scope(push(v, ScopeStart), "Block"), statements))

\* one branch of visit_conditional after its block: the jump out, and the
\* branch's JumpIfElse gets its addresses
branch_end(v, jump_index, branches, outs) ==
    IF v.err # "" THEN [v |-> v, outs |-> outs]
    ELSE visit_branches(
           [push(v, Placeholder(Len(v.chunk), "Jump")) EXCEPT !.chunk =
              SetAt(@, jump_index, JumpIfElse(jump_index + 1, Len(v.chunk) + 1, 0))],
           Tail(branches), Append(outs, Len(v.chunk)))

\* one branch of visit_conditional after its condition
branch_block(v, branches, outs) ==
    IF v.err # "" THEN [v |-> v, outs |-> outs]
    ELSE branch_end(visit_block(push(v, Placeholder(Len(v.chunk), "JumpIfElse")),
                                Head(branches)[2]),
                    Len(v.chunk), branches, outs)

\* the branch loop of visit_conditional; outs collects jump_out_addrs
visit_branches(v, branches, outs) ==
    IF v.err # "" \/ branches = <<>> THEN [v |-> v, outs |-> outs]
    ELSE branch_block(visit_expr(v, Head(branches)[1], ""), branches, outs)

\* conditional_end of a compiler whose jumps out go one address too far
conditional_end_past_after(v, outs) ==
    IF v.err # "" THEN v
    ELSE [v EXCEPT !.chunk =
            [i \in 1..Len(v.chunk) |->
               IF \E j \in 1..Len(outs) : outs[j] = i - 1
               THEN Jump(Len(v.chunk) + 1, 0) ELSE v.chunk[i]]]

\* visit_conditional after the default block: the jumps out are set
conditional_end(v, outs) ==
    IF v.err # "" THEN v
    ELSE [v EXCEPT !.chunk =
            [i \in 1..Len(v.chunk) |->
               IF \E j \in 1..Len(outs) : outs[j] = i - 1
               THEN Jump(Len(v.chunk), 0) ELSE v.chunk[i]]]

\* visit_conditional after its branches
conditional_default(r, node) ==
    IF r.v.err # "" THEN r.v
    ELSE conditional_end(IF node.has_default THEN visit_block(r.v, node.default)
                         ELSE push(r.v, LoadConst(0)),
                         r.outs)

visit_conditional(v, node) ==
    conditional_default(visit_branches(v, node.branches, <<>>), node)

is_true(expr) == expr.k = "Literal" /\ expr.lk = "Bool" /\ expr.v = 1

\* patch_inst of a compiler that sends a break where a continue goes
patch_inst_break_to_top(ch, inst, loop_addr, after_addr, loop_scope_depth) ==
    CASE inst.op = "BreakPlaceholder" ->
           SetAt(ch, inst.a, Jump(loop_addr, inst.b - loop_scope_depth))
      [] inst.op = "ContinuePlaceholder" ->
           SetAt(ch, inst.a, Jump(loop_addr, inst.b - loop_scope_depth))
      [] OTHER -> ch

\* what the break/continue patch loop of visit_loop does at one address
patch_inst(ch, inst, loop_addr, after_addr, loop_scope_depth) ==
    CASE inst.op = "BreakPlaceholder" ->
           SetAt(ch, inst.a, Jump(after_addr, inst.b - loop_scope_depth))
      [] inst.op = "ContinuePlaceholder" ->
           SetAt(ch, inst.a, Jump(loop_addr, inst.b - loop_scope_depth))
      [] OTHER -> ch

\* the break/continue patch loop of visit_loop, addresses addr..after_addr-1
RECURSIVE patch_loop(_, _, _, _, _)
patch_loop(ch, addr, loop_addr, after_addr, loop_scope_depth) ==
    IF addr >= after_addr THEN ch
    ELSE patch_loop(patch_inst(ch, At(ch, addr), loop_addr, after_addr, loop_scope_depth),
                    addr + 1, loop_addr, after_addr, loop_scope_depth)

\* visit_loop after the jump back to the top: the exit jump and the
\* breaks and continues get their addresses (jump_out_index < 0: `loop true`)
loop_end(v, loop_addr, jump_out_index, loop_scope_depth) ==
    [v EXCEPT !.chunk = patch_loop(IF jump_out_index < 0 THEN @
                                   ELSE SetAt(@, jump_out_index, JumpIfNot(Len(v.chunk), 0)),
                                   loop_addr, loop_addr, Len(v.chunk), loop_scope_depth),
              !.log = Append(@, [what |-> "loop", addr |-> loop_addr,
                                 after |-> Len(v.chunk), depth |-> loop_scope_depth])]

\* visit_loop after the block
loop_jump(v, loop_addr, jump_out_index, loop_scope_depth) ==
    IF v.err # "" THEN v
    ELSE loop_end(push(v, Jump(loop_addr, 0)), loop_addr, jump_out_index, loop_scope_depth)

\* visit_loop after the loop's condition
loop_block(v, node, loop_addr, loop_scope_depth) ==
    IF v.err # "" THEN v
    ELSE loop_jump(visit_block(push(v, Placeholder(Len(v.chunk), "JumpIfNot")),
                               node.statements),
                   loop_addr, Len(v.chunk), loop_scope_depth)

visit_loop(v, node) ==
    IF is_true(node.expr)
    THEN loop_jump(visit_block(push(v, NoOp), node.statements),
                   Len(v.chunk), -1, v.scope_depth)
    ELSE loop_block(visit_expr(v, node.expr, ""), node, Len(v.chunk), v.scope_depth)

\* fix_jump of a compiler whose jumps go to the instruction they precede
fix_jump_to_next(v, idx, jump, found, jump_depth) ==
    IF found # <<>>
    THEN [v EXCEPT !.chunk = SetAt(@, jump.addr, Jump(jump.addr + 1, jump_depth - found[2]))]
    ELSE IF v.storage[idx + 1].kind = "Func"
    THEN fail(v, "CannotJumpOutOfFunc")
    ELSE fail(v, "LabelNotFoundInScope")

\* one jump of a scope, given what find_label found
fix_jump(v, idx, jump, found, jump_depth) ==
    IF found # <<>>
    THEN [v EXCEPT !.chunk = SetAt(@, jump.addr, Jump(found[1], jump_depth - found[2]))]
    ELSE IF v.storage[idx + 1].kind = "Func"
    THEN fail(v, "CannotJumpOutOfFunc")
    ELSE fail(v, "LabelNotFoundInScope")

\* the jumps of one scope, in order; stops at the first label not found
RECURSIVE fix_scope_jumps(_, _, _, _)
fix_scope_jumps(v, idx, jumps, jump_depth) ==
    IF v.err # "" \/ jumps = <<>> THEN v
    ELSE fix_scope_jumps(
           fix_jump(v, idx, Head(jumps), find_label(v.storage, idx, Head(jumps).name),
                    jump_depth),
           idx, Tail(jumps), jump_depth)

RECURSIVE fix_jumps_walk(_, _)
fix_jumps_walk(v, order) ==
    IF v.err # "" \/ order = <<>> THEN v
    ELSE fix_jumps_walk(
           fix_scope_jumps(v, Head(order), v.storage[Head(order) + 1].jumps,
                           scope_depth_of(v.storage, Head(order))),
           Tail(order))

fix_jumps(v) == fix_jumps_walk(v, walk_up_order(v.storage, 0))

last_is_expr(statements) ==
    statements # <<>> /\ statements[Len(statements)].sk = "Expr"

\* visit_func line 355: every named function sets has_main
set_has_main(v, name) ==
    IF name # "" THEN [v EXCEPT !.has_main = (name = "$main" /\ in_global_scope(v))]
    ELSE v

\* the Func object of a finished function visitor
new_func(fv, node, name) ==
    [name |-> IF name # "" THEN name ELSE "<anonymous>", params |-> node.params,
     chunk |-> fv.chunk, log |-> fv.log]

\* visit_func once the function's chunk is complete: the Func is a constant
func_const(v, fv, node, name) ==
    add_const([v EXCEPT !.consts = fv.consts,
                        !.funcs = Append(fv.funcs, new_func(fv, node, name))],
              FuncObj(Len(fv.funcs) + 1))

\* visit_func after the function visitor's statements and fix_jumps
func_end(v, fv, node, name) ==
    IF fv.err # ""
    THEN [v EXCEPT !.err = fv.err, !.consts = fv.consts, !.funcs = fv.funcs]
    ELSE func_const(v,
           exit_scope(push(push(IF last_is_expr(node.statements) THEN fv
                                ELSE push(fv, LoadConst(0)),
                                Return), ScopeEnd)),
           node, name)

visit_func(v, node, name) ==
    func_end(set_has_main(v, name),
             fix_jumps(visit_statements(
                 enter_scope(push(Visitor_new(v.consts, v.funcs), ScopeStart), "Func"),
                 node.statements)),
             node, name)

visit_call(v, node) ==
    push_ok(visit_exprs(visit_expr(v, node.callable, ""), node.args), Call(Len(node.args)))

visit_unary_op(v, op, expr) == push_ok(visit_expr(v, expr, ""), UnaryOp(op))

visit_binary_op(v, expr_a, op, expr_b) ==
    IF op = "Assign" THEN visit_assignment(v, expr_a, expr_b)
    ELSE push_ok(visit_expr(visit_expr(v, expr_a, ""), expr_b, ""), BinaryOp(op))

visit_expr(v, node, name) ==
    IF v.err # "" THEN v
    ELSE CASE node.k = "Literal" -> visit_literal(v, node)
           [] node.k = "Ident" -> visit_ident(v, node)
           [] node.k = "Block" -> visit_block(v, node.statements)
           [] node.k = "Conditional" -> visit_conditional(v, node)
           [] node.k = "Loop" -> visit_loop(v, node)
           [] node.k = "Func" -> visit_func(v, node, name)
           [] node.k = "Call" -> visit_call(v, node)
           [] node.k = "UnaryOp" -> visit_unary_op(v, node.op, node.a)
           [] node.k = "BinaryOp" -> visit_binary_op(v, node.a, node.op, node.b)

\* program_end of a compiler that ends a module without $main with no Halt
program_end_without_halt(v) ==
    IF v.err # "" THEN v
    ELSE IF v.has_main
    THEN push(push(push(add_const(add_const(push(v, LoadVar("$main")),
                                            IntObj(100)), IntObj(10)),
                        Call(2)), Return), HaltTop)
    ELSE v

\* visit_program after the statements and fix_jumps
program_end(v) ==
    IF v.err # "" THEN v
    ELSE IF v.has_main
    THEN push(push(push(add_const(add_const(push(v, LoadVar("$main")),
                                            IntObj(100)), IntObj(10)),
                        Call(2)), Return), HaltTop)
    ELSE push(v, Halt(0))

visit_program(v, statements) == program_end(fix_jumps(visit_statements(v, statements)))

\* compile(vm, program): the visitor after visit_program
compile(pool, heap, statements) ==
    visit_program(Visitor_new(pool, heap), statements)

\* ------------------------------------------------------------------------
\* RuntimeContext: namespaces

Names == {"x", "f", "g", "$main", "argc", "argv", "a", "_"}

\* Namespace::new: no name is held
Namespace_new == [n \in Names |-> Undeclared]

InitNamespaces == <<Namespace_new>>

\* Namespace::add_var: the new var is nil
add_var(ns, name) == [ns EXCEPT ![name] = NilObj]

\* a set_var that stores nothing
set_var_keeps(ns, name, obj) == ns

\* Namespace::set_var: only a held name is set
set_var(ns, name, obj) == IF ns[name] # Undeclared THEN [ns EXCEPT ![name] = obj] ELSE ns

\* ctx.enter_scope
ctx_enter_scope(nss) == Append(nss, Namespace_new)

\* ctx.exit_scopes(count)
ctx_exit_scopes(nss, count) ==
    SubSeq(nss, 1, IF Len(nss) - count > 0 THEN Len(nss) - count ELSE 0)

\* ctx.get_var_depth: the innermost namespace holding the name, or -1
RECURSIVE get_var_depth_from(_, _, _)
get_var_depth_from(nss, name, d) ==
    IF d < 0 THEN -1
    ELSE IF nss[d + 1][name] # Undeclared THEN d
    ELSE get_var_depth_from(nss, name, d - 1)

get_var_depth(nss, name) == get_var_depth_from(nss, name, Len(nss) - 1)

\* ctx.declare_and_assign_var: in the current namespace
declare_and_assign_var(nss, name, obj) ==
    [nss EXCEPT ![Len(nss)] = set_var(add_var(@, name), name, obj)]

RECURSIVE bind_params(_, _, _)
bind_params(nss, params, args) ==
    IF params = <<>> THEN nss
    ELSE bind_params(declare_and_assign_var(nss, Head(params), Head(args)),
                     Tail(params), Tail(args))

\* ------------------------------------------------------------------------
\* VM: the value stack

Constant(index) == [k |-> "Constant", d |-> index, n |-> "", o |-> NilObj]
Var(depth, name) == [k |-> "Var", d |-> depth, n |-> name, o |-> NilObj]
Temp(obj) == [k |-> "Temp", d |-> 0, n |-> "", o |-> obj]
ReturnVal(obj) == [k |-> "ReturnVal", d |-> 0, n |-> "", o |-> obj]

Ok(obj) == [ok |-> TRUE, obj |-> obj, err |-> ""]
Err(kind) == [ok |-> FALSE, obj |-> NilObj, err |-> kind]

\* VM::get_obj
get_obj(kind, pool, nss) ==
    CASE kind.k = "Constant" ->
           IF kind.d < Len(pool) THEN Ok(pool[kind.d + 1]) ELSE Err("ConstantNotFound")
      [] kind.k = "Var" ->
           IF kind.d < Len(nss) /\ nss[kind.d + 1][kind.n] # Undeclared
           THEN Ok(nss[kind.d + 1][kind.n]) ELSE Err("NameErr")
      [] OTHER -> Ok(kind.o)

Pop(stk) == SubSeq(stk, 1, Len(stk) - 1)
Peek(stk) == stk[Len(stk)]
\* Stack::truncate: no effect when the stack is not longer than size
Truncated(stk, size) == IF size < Len(stk) THEN SubSeq(stk, 1, size) ELSE stk

\* ------------------------------------------------------------------------
\* Objects: the operations of Int, and of the other types as far as used

\* Int::as_bool; Bool: its value; Nil: false; other types have no as_bool
as_bool(obj) ==
    CASE obj.t = "Int" -> [ok |-> TRUE, b |-> (obj.v = 0), err |-> ""]
      [] obj.t = "Bool" -> [ok |-> TRUE, b |-> (obj.v = 1), err |-> ""]
      [] obj.t = "Nil" -> [ok |-> TRUE, b |-> FALSE, err |-> ""]
      [] OTHER -> [ok |-> FALSE, b |-> FALSE, err |-> "TypeErr"]

\* make_op!(add, +) and friends: Int with Int gives Int, else TypeErr
int_arith(op, a, b) ==
    IF a.t = "Int" /\ b.t = "Int"
    THEN CASE op = "Add" -> Ok(IntObj(a.v + b.v))
           [] op = "Sub" -> Ok(IntObj(a.v - b.v))
           [] op = "Mul" -> Ok(IntObj(a.v * b.v))
    ELSE Err("TypeErr")

\* Int::less_than, Int::greater_than, Int::is_equal
int_compare(op, a, b) ==
    IF a.t = "Int" /\ b.t = "Int"
    THEN CASE op = "LessThan" -> Ok(bool_obj_from_bool(a.v < b.v))
           [] op = "GreaterThan" -> Ok(bool_obj_from_bool(a.v > b.v))
           [] op = "LessThanOrEqual" -> Ok(bool_obj_from_bool(a.v < b.v \/ a.v = b.v))
           [] op = "GreaterThanOrEqual" -> Ok(bool_obj_from_bool(a.v > b.v \/ a.v = b.v))
           [] op = "IsEqual" -> Ok(bool_obj_from_bool(a.v = b.v))
           [] op = "NotEqual" -> Ok(bool_obj_from_bool(a.v # b.v))
    ELSE IF op \in {"IsEqual"} THEN Ok(bool_obj_from_bool(a = b))
    ELSE IF op \in {"NotEqual"} THEN Ok(bool_obj_from_bool(a # b))
    ELSE Err("TypeErr")

ArithOps == {"Add", "Sub", "Mul"}
CompareOps == {"LessThan", "GreaterThan", "LessThanOrEqual", "GreaterThanOrEqual",
               "IsEqual", "NotEqual"}
InPlaceOps == {"AddEqual", "SubEqual"}

\* ------------------------------------------------------------------------
\* VM: scope exit

\* VM::exit_scopes(count) on (value stack, scope stack, namespaces): the set
\* of outcomes.  `size - drop_count` underflows when a stack is shorter than
\* drop_count: a build with overflow checks panics, a build without wraps
\* and the truncate has no effect.
exit_rest(vs, ss, nss, pool, count) ==
    LET return_val == IF vs = <<>> THEN Err("EmptyStack")
                      ELSE get_obj(Peek(vs), pool, nss)
        vs1 == IF vs = <<>> THEN vs ELSE Pop(vs)
    IN IF ss = <<>> \/ ~return_val.ok
       THEN [panic |-> TRUE, vs |-> vs, ss |-> ss, ns |-> nss]
       ELSE [panic |-> FALSE,
             vs |-> Append(Truncated(vs1, Peek(ss)), Temp(return_val.obj)),
             ss |-> Pop(ss),
             ns |-> ctx_exit_scopes(nss, count)]

exit_scopes(vs, ss, nss, pool, count) ==
    IF count = 0 THEN {[panic |-> FALSE, vs |-> vs, ss |-> ss, ns |-> nss]}
    ELSE IF count = 1 THEN {exit_rest(vs, ss, nss, pool, count)}
    ELSE LET drop_count == count - 1
             under == drop_count > Len(ss) \/ drop_count > Len(vs)
             ss1 == IF drop_count > Len(ss) THEN ss ELSE SubSeq(ss, 1, Len(ss) - drop_count)
             vs1 == IF drop_count > Len(vs) THEN vs ELSE SubSeq(vs, 1, Len(vs) - drop_count)
         IN {exit_rest(vs1, ss1, nss, pool, count)}
            \cup (IF under THEN {[panic |-> TRUE, vs |-> vs, ss |-> ss, ns |-> nss]}
                  ELSE {})

\* ------------------------------------------------------------------------
\* VM: execute

Res(kind, code, err) == [kind |-> kind, code |-> code, err |-> err]

\* open: the value stack as it was at each ScopeStart this execute has run
\* and no scope exit of this execute has matched yet; at_call: what the
\* stacks were when handle_call was entered (<<>> for the outermost execute)
Frame(fid, ip) == [fid |-> fid, ip |-> ip, open |-> <<>>, at_call |-> <<>>]

\* the stacks as handle_call finds them: the value stack still holds the
\* callable and the n arguments
AtCall(n) ==
    <<[vs |-> value_stack, n |-> n, scope |-> Len(scope_stack), ns |-> Len(ns_stack)]>>

Top == frames[Len(frames)]
ChunkOf(fid) == IF fid = 0 THEN chunk ELSE funcs[fid].chunk
CurChunk == ChunkOf(Top.fid)
CurInst == At(CurChunk, Top.ip)

\* the loop of VM::execute is about to match chunk[ip]
Fetch(op) ==
    /\ result.kind = "Running"
    /\ steps < MaxSteps
    /\ Top.ip < Len(CurChunk)
    /\ CurInst.op = op

Keep == UNCHANGED <<program, incremental, chunk, comp, consts, funcs, pre, runs,
                    front_vars>>

\* the end of one loop iteration: ip is set, and `ip == chunk.len()` ends
\* the execute (the outermost one returns Idle; a nested one returns to
\* handle_call, see FuncReturn); an ip past the end panics at chunk[ip].
\* open2 is what becomes of the frame's open scopes.
Goto(ip2, open2) ==
    /\ frames' = [frames EXCEPT ![Len(frames)].ip = ip2,
                                ![Len(frames)].open = open2]
    /\ result' = IF ip2 > Len(CurChunk) THEN Res("Panic", 0, "IndexOutOfBounds")
                 ELSE IF Len(frames) = 1 /\ ip2 = Len(CurChunk) THEN Res("Idle", 0, "")
                 ELSE result
    /\ steps' = steps + 1

Next_ip == Top.ip + 1

\* the frame's open scopes after count of them are exited
Closed(count) ==
    SubSeq(Top.open, 1, IF Len(Top.open) > count THEN Len(Top.open) - count ELSE 0)

\* `?` on a RuntimeErr: every active execute returns it
Raise(kind) ==
    /\ result' = Res("Err", 0, kind)
    /\ steps' = steps + 1
    /\ UNCHANGED frames

Panic(what) ==
    /\ result' = Res("Panic", 0, what)
    /\ steps' = steps + 1
    /\ UNCHANGED <<frames, value_stack, scope_stack, ns_stack>>

\* execute returns Ok(VMState::Halted(code)): from the outermost execute to
\* the driver, from a nested one to handle_call, which drops the state
Halted(code) ==
    /\ steps' = steps + 1
    /\ IF Len(frames) = 1
       THEN result' = Res("Halted", code, "") /\ UNCHANGED frames
       ELSE /\ frames' = [frames EXCEPT ![Len(frames)].ip = Len(CurChunk)]
            /\ UNCHANGED result

ExecNoOp ==
    /\ Fetch("NoOp")
    /\ Goto(Next_ip, Top.open)
    /\ UNCHANGED <<value_stack, scope_stack, ns_stack>>
    /\ Keep

ExecTruncate ==
    /\ Fetch("Truncate")
    /\ value_stack' = Truncated(value_stack, CurInst.a)
    /\ Goto(Next_ip, Top.open)
    /\ UNCHANGED <<scope_stack, ns_stack>>
    /\ Keep

ExecLoadConst ==
    /\ Fetch("LoadConst")
    /\ value_stack' = Append(value_stack, Constant(CurInst.a))
    /\ Goto(Next_ip, Top.open)
    /\ UNCHANGED <<scope_stack, ns_stack>>
    /\ Keep

ExecScopeStart ==
    /\ Fetch("ScopeStart")
    /\ scope_stack' = Append(scope_stack, Len(value_stack))
    /\ ns_stack' = ctx_enter_scope(ns_stack)
    /\ Goto(Next_ip, Append(Top.open, value_stack))
    /\ UNCHANGED value_stack
    /\ Keep

ExecScopeEnd ==
    /\ Fetch("ScopeEnd")
    /\ \E o \in exit_scopes(value_stack, scope_stack, ns_stack, consts, 1) :
         IF o.panic THEN Panic("exit_scopes")
         ELSE /\ value_stack' = o.vs
              /\ scope_stack' = o.ss
              /\ ns_stack' = o.ns
              /\ Goto(Next_ip, Closed(1))
    /\ Keep

ExecDeclareVar ==
    /\ Fetch("DeclareVar")
    /\ ns_stack' = IF Peek(ns_stack)[CurInst.s] = Undeclared
                   THEN [ns_stack EXCEPT ![Len(ns_stack)] = add_var(@, CurInst.s)]
                   ELSE ns_stack
    /\ Goto(Next_ip, Top.open)
    /\ UNCHANGED <<value_stack, scope_stack>>
    /\ Keep

ExecAssignVar ==
    /\ Fetch("AssignVar")
    /\ LET obj == IF value_stack = <<>> THEN Err("EmptyStack")
                  ELSE get_obj(Peek(value_stack), consts, ns_stack)
           vs1 == IF value_stack = <<>> THEN value_stack ELSE Pop(value_stack)
           depth == get_var_depth(ns_stack, CurInst.s)
       IN IF ~obj.ok
          THEN Raise(obj.err) /\ value_stack' = vs1 /\ UNCHANGED ns_stack
          ELSE IF depth < 0
          THEN Raise("NameErr") /\ value_stack' = vs1 /\ UNCHANGED ns_stack
          ELSE /\ ns_stack' = [ns_stack EXCEPT ![depth + 1] = set_var(@, CurInst.s, obj.obj)]
               /\ value_stack' = Append(vs1, Var(depth, CurInst.s))
               /\ Goto(Next_ip, Top.open)
    /\ UNCHANGED scope_stack
    /\ Keep

ExecLoadVar ==
    /\ Fetch("LoadVar")
    /\ LET depth == get_var_depth(ns_stack, CurInst.s)
       IN IF depth < 0
          THEN Raise("NameErr") /\ UNCHANGED value_stack
          ELSE /\ value_stack' = Append(value_stack, Var(depth, CurInst.s))
               /\ Goto(Next_ip, Top.open)
    /\ UNCHANGED <<scope_stack, ns_stack>>
    /\ Keep

ExecJump ==
    /\ Fetch("Jump")
    /\ \E o \in exit_scopes(value_stack, scope_stack, ns_stack, consts, CurInst.c) :
         IF o.panic THEN Panic("exit_scopes")
         ELSE /\ value_stack' = o.vs
              /\ scope_stack' = o.ss
              /\ ns_stack' = o.ns
              /\ Goto(CurInst.a, Closed(CurInst.c))
    /\ Keep

\* JumpIf, JumpIfNot, JumpIfElse: exit_scopes, pop_obj()?, as_bool()?, and
\* the address chosen by target(b); a JumpIf(Not) not taken goes to ip + 1
CondJump(target(_)) ==
    \E o \in exit_scopes(value_stack, scope_stack, ns_stack, consts, CurInst.c) :
      IF o.panic THEN Panic("exit_scopes")
      ELSE LET obj == IF o.vs = <<>> THEN Err("EmptyStack")
                      ELSE get_obj(Peek(o.vs), consts, o.ns)
               vs1 == IF o.vs = <<>> THEN o.vs ELSE Pop(o.vs)
               cond == IF obj.ok THEN as_bool(obj.obj)
                       ELSE [ok |-> FALSE, b |-> FALSE, err |-> obj.err]
           IN /\ value_stack' = vs1
              /\ scope_stack' = o.ss
              /\ ns_stack' = o.ns
              /\ IF cond.ok THEN Goto(target(cond.b), Closed(CurInst.c))
                 ELSE Raise(cond.err)

JumpIfTarget(b) == IF b THEN CurInst.a ELSE Next_ip
JumpIfNotTarget(b) == IF ~b THEN CurInst.a ELSE Next_ip
\* a JumpIfElse that takes its addresses the other way round
JumpIfElseSwapped(b) == IF b THEN CurInst.b ELSE CurInst.a

JumpIfElseTarget(b) == IF b THEN CurInst.a ELSE CurInst.b

ExecJumpIf ==
    /\ Fetch("JumpIf")
    /\ CondJump(JumpIfTarget)
    /\ Keep

ExecJumpIfNot ==
    /\ Fetch("JumpIfNot")
    /\ CondJump(JumpIfNotTarget)
    /\ Keep

ExecJumpIfElse ==
    /\ Fetch("JumpIfElse")
    /\ CondJump(JumpIfElseTarget)
    /\ Keep

\* Int::negate; the other types have no negate
negate(obj) == IF obj.t = "Int" THEN Ok(IntObj(0 - obj.v)) ELSE Err("TypeErr")

unary_op(op, a) ==
    CASE op = "Plus" -> Ok(a)
      [] op = "Negate" -> negate(a)
      [] op = "AsBool" ->
           IF as_bool(a).ok THEN Ok(bool_obj_from_bool(as_bool(a).b)) ELSE Err(as_bool(a).err)
      [] op = "Not" ->
           IF as_bool(a).ok THEN Ok(bool_obj_from_bool(~as_bool(a).b)) ELSE Err(as_bool(a).err)

ExecUnaryOp ==
    /\ Fetch("UnaryOp")
    /\ LET a == IF value_stack = <<>> THEN Err("EmptyStack")
                ELSE get_obj(Peek(value_stack), consts, ns_stack)
           vs1 == IF value_stack = <<>> THEN value_stack ELSE Pop(value_stack)
           r == IF a.ok THEN unary_op(CurInst.s, a.obj) ELSE a
       IN IF r.ok
          THEN value_stack' = Append(vs1, Temp(r.obj)) /\ Goto(Next_ip, Top.open)
          ELSE value_stack' = vs1 /\ Raise(r.err)
    /\ UNCHANGED <<scope_stack, ns_stack>>
    /\ Keep

binary_op(op, a, b) ==
    IF op \in ArithOps THEN int_arith(op, a, b) ELSE int_compare(op, a, b)

\* in_place_op of a VM in which += subtracts
in_place_op_sub_only(op, a, b) == int_arith("Sub", a, b)

in_place_op(op, a, b) ==
    int_arith(IF op = "AddEqual" THEN "Add" ELSE "Sub", a, b)

ExecBinaryOp ==
    /\ Fetch("BinaryOp")
    /\ CurInst.s \in ArithOps \cup CompareOps \cup InPlaceOps
    /\ IF Len(value_stack) < 2
       THEN Raise("NotEnoughValuesOnStack") /\ UNCHANGED <<value_stack, ns_stack>>
       ELSE LET a_kind == value_stack[Len(value_stack) - 1]
                a == get_obj(a_kind, consts, ns_stack)
                b == get_obj(Peek(value_stack), consts, ns_stack)
                vs1 == SubSeq(value_stack, 1, Len(value_stack) - 2)
            IN IF ~a.ok THEN Raise(a.err) /\ value_stack' = vs1 /\ UNCHANGED ns_stack
               ELSE IF ~b.ok THEN Raise(b.err) /\ value_stack' = vs1 /\ UNCHANGED ns_stack
               ELSE IF CurInst.s \in InPlaceOps
               THEN IF a_kind.k # "Var"
                    THEN Raise("ExpectedVar") /\ value_stack' = vs1 /\ UNCHANGED ns_stack
                    ELSE LET r == in_place_op(CurInst.s, a.obj, b.obj)
                         IN IF ~r.ok
                            THEN Raise(r.err) /\ value_stack' = vs1 /\ UNCHANGED ns_stack
                            ELSE /\ ns_stack' = [ns_stack EXCEPT ![a_kind.d + 1] =
                                                    set_var(@, a_kind.n, r.obj)]
                                 /\ value_stack' = Append(vs1, a_kind)
                                 /\ Goto(Next_ip, Top.open)
               ELSE LET r == binary_op(CurInst.s, a.obj, b.obj)
                    IN /\ UNCHANGED ns_stack
                       /\ IF r.ok
                          THEN value_stack' = Append(vs1, Temp(r.obj)) /\ Goto(Next_ip, Top.open)
                          ELSE value_stack' = vs1 /\ Raise(r.err)
    /\ UNCHANGED scope_stack
    /\ Keep

\* the first error among results, or none
RECURSIVE first_err(_)
first_err(rs) ==
    IF rs = <<>> THEN ""
    ELSE IF ~Head(rs).ok THEN Head(rs).err
    ELSE first_err(Tail(rs))

\* VM::handle_call up to the nested execute, with check_call_args
ExecCall ==
    /\ Fetch("Call")
    /\ LET n == CurInst.a
       IN IF Len(value_stack) < n + 1
          THEN /\ Raise("NotEnoughValuesOnStack")
               /\ UNCHANGED <<value_stack, scope_stack, ns_stack>>
          ELSE LET vs1 == SubSeq(value_stack, 1, Len(value_stack) - (n + 1))
                   objects == [i \in 1..(n + 1) |->
                                 get_obj(value_stack[Len(vs1) + i], consts, ns_stack)]
                   callable == objects[1].obj
                   args == [i \in 1..n |-> objects[i + 1].obj]
               IN /\ value_stack' = vs1
                  /\ IF first_err(objects) # ""
                     THEN Raise(first_err(objects)) /\ UNCHANGED <<scope_stack, ns_stack>>
                     ELSE IF callable.t # "Func"
                     THEN Raise("NotCallable") /\ UNCHANGED <<scope_stack, ns_stack>>
                     ELSE /\ scope_stack' = Append(scope_stack, Len(vs1))
                          /\ IF Len(funcs[callable.v].params) # n
                             THEN /\ Raise("TypeErr")
                                  /\ ns_stack' = ctx_enter_scope(ns_stack)
                             ELSE /\ ns_stack' = bind_params(ctx_enter_scope(ns_stack),
                                                    funcs[callable.v].params, args)
                                  /\ frames' = Append(frames,
                                                [Frame(callable.v, 0)
                                                   EXCEPT !.at_call = AtCall(n)])
                                  /\ steps' = steps + 1
                                  /\ UNCHANGED result
    /\ Keep

\* VM::handle_call after the nested execute has returned Ok (whatever the
\* VMState): exit_scopes(1), and the caller's loop moves past the Call
FuncReturn ==
    /\ result.kind = "Running"
    /\ steps < MaxSteps
    /\ Len(frames) > 1
    /\ Top.ip = Len(CurChunk)
    /\ \E o \in exit_scopes(value_stack, scope_stack, ns_stack, consts, 1) :
         IF o.panic THEN Panic("exit_scopes")
         ELSE LET caller == frames[Len(frames) - 1]
                  ip2 == caller.ip + 1
              IN /\ value_stack' = o.vs
                 /\ scope_stack' = o.ss
                 /\ ns_stack' = o.ns
                 /\ frames' = [Pop(frames) EXCEPT ![Len(frames) - 1].ip = ip2]
                 /\ result' = IF Len(frames) = 2 /\ ip2 = Len(ChunkOf(caller.fid))
                              THEN Res("Idle", 0, "") ELSE result
                 /\ steps' = steps + 1
    /\ Keep

ExecReturn ==
    /\ Fetch("Return")
    /\ Goto(Next_ip, Top.open)
    /\ UNCHANGED <<value_stack, scope_stack, ns_stack>>
    /\ Keep

ExecPlaceholder ==
    /\ Fetch("Placeholder")
    /\ Halted(255)
    /\ UNCHANGED <<value_stack, scope_stack, ns_stack>>
    /\ Keep

ExecBreakPlaceholder ==
    /\ Fetch("BreakPlaceholder")
    /\ Halted(255)
    /\ UNCHANGED <<value_stack, scope_stack, ns_stack>>
    /\ Keep

ExecContinuePlaceholder ==
    /\ Fetch("ContinuePlaceholder")
    /\ Halted(255)
    /\ UNCHANGED <<value_stack, scope_stack, ns_stack>>
    /\ Keep

\* VM::halt does nothing
ExecHalt ==
    /\ Fetch("Halt")
    /\ Halted(CurInst.a)
    /\ UNCHANGED <<value_stack, scope_stack, ns_stack>>
    /\ Keep

\* a conversion to u8 that keeps the low eight bits
to_u8_wrapping(n) == n % 256

\* int.to_u8().unwrap_or(255)
to_u8_or_255(n) == IF 0 <= n /\ n <= 255 THEN n ELSE 255

ExecHaltTop ==
    /\ Fetch("HaltTop")
    /\ LET obj == IF value_stack = <<>> THEN Err("EmptyStack")
                  ELSE get_obj(Peek(value_stack), consts, ns_stack)
       IN /\ value_stack' = IF value_stack = <<>> THEN value_stack ELSE Pop(value_stack)
          /\ IF ~obj.ok THEN Raise(obj.err)
             ELSE Halted(IF obj.obj.t = "Int" THEN to_u8_or_255(obj.obj.v) ELSE 0)
    /\ UNCHANGED <<scope_stack, ns_stack>>
    /\ Keep

\* ------------------------------------------------------------------------
\* Programs handed to the executor

\* statements that may stand anywhere, and those that stand inside a loop
Atoms == {SExpr(LitInt(1)), SJump("L"), SLabel("L", LitNil)}
LoopAtoms == Atoms \cup {SBreak(LitNil), SContinue}

\* block bodies of one or two statements
Bodies(atoms) == {<<a>> : a \in atoms} \cup {<<a, b>> : a \in atoms, b \in atoms}

If(cond, statements) == Conditional(<<<<cond, statements>>>>, FALSE, <<>>)

\* the compound expressions over a set of bodies, and over bodies that are
\* lexically inside a loop
Compound(bodies, loop_bodies) ==
    {SExpr(Block(b)) : b \in bodies}
    \cup {SExpr(If(LitTrue, b)) : b \in bodies}
    \cup {SExpr(CallExpr(Func(<<>>, b), <<>>)) : b \in bodies}
    \cup {SExpr(Loop(LitTrue, b)) : b \in loop_bodies}
    \cup {SExpr(Loop(LitFalse, b)) : b \in loop_bodies}

Nested1 == Compound(Bodies(Atoms), Bodies(LoopAtoms))
Nested1InLoop == Compound(Bodies(LoopAtoms), Bodies(LoopAtoms))
Nested2 == Compound({<<s>> : s \in Nested1}, {<<s>> : s \in Nested1InLoop})

RECURSIVE AtomSeqs(_)
AtomSeqs(n) ==
    IF n = 0 THEN {<<>>}
    ELSE {<<>>} \cup {<<a>> \o t : a \in Atoms, t \in AtomSeqs(n - 1)}

\* a statement followed by fewer than MaxStmts simple statements
Generated == {<<s>> \o t : s \in Atoms \cup Nested1 \cup Nested2, t \in AtomSeqs(MaxStmts - 1)}

MainFunc == Func(<<"argc", "argv">>, <<SExpr(LitInt(0))>>)
ConstFunc == Func(<<>>, <<SExpr(LitInt(1))>>)

P_add == <<SExpr(BinExpr(LitInt(1), "Add", LitInt(2)))>>
P_loop3 ==
    <<SExpr(Assign(Ident("x"), LitInt(0))),
      SExpr(Loop(BinExpr(Ident("x"), "LessThan", LitInt(3)),
                 <<SExpr(BinExpr(Ident("x"), "AddEqual", LitInt(1)))>>)),
      SExpr(Ident("x"))>>
P_main == <<SExpr(Assign(SpecialIdent("$main"), MainFunc))>>
P_main_then_f ==
    <<SExpr(Assign(SpecialIdent("$main"), MainFunc)), SExpr(Assign(Ident("f"), ConstFunc))>>
P_f_then_main ==
    <<SExpr(Assign(Ident("f"), ConstFunc)), SExpr(Assign(SpecialIdent("$main"), MainFunc))>>
P_main_in_block == <<SExpr(Block(<<SExpr(Assign(SpecialIdent("$main"), MainFunc))>>))>>
P_jump ==
    <<SJump("L"), SExpr(BinExpr(LitInt(1), "Sub", LitNil)), SLabel("L", LitNil)>>
P_jump_in_block ==
    <<SExpr(Block(<<SJump("L"), SExpr(BinExpr(LitInt(1), "Sub", LitNil)),
                    SLabel("L", LitInt(2))>>))>>
P_break_value ==
    <<SExpr(Loop(LitTrue, <<SExpr(If(LitTrue, <<SBreak(LitInt(7))>>)), SContinue>>))>>
P_break_direct == <<SExpr(Loop(LitTrue, <<SBreak(LitInt(7))>>))>>
P_break_after_value ==
    <<SExpr(Loop(LitTrue, <<SExpr(LitInt(1)), SExpr(If(LitTrue, <<SBreak(LitInt(7))>>))>>))>>
P_loop_continue ==
    <<SExpr(Assign(Ident("x"), LitInt(0))),
      SExpr(Loop(BinExpr(Ident("x"), "LessThan", LitInt(3)),
                 <<SExpr(BinExpr(Ident("x"), "AddEqual", LitInt(1))), SContinue>>)),
      SExpr(Ident("x"))>>
\* `if (a = v1) -> 1 else if (g = v2) -> 2 [else -> 3]`: each condition
\* leaves its mark in the module's namespace when it is evaluated
P_conditional(v1, v2, has_default) ==
    <<SExpr(Conditional(<<<<Assign(Ident("a"), v1), <<SExpr(LitInt(1))>>>>,
                          <<Assign(Ident("g"), v2), <<SExpr(LitInt(2))>>>>>>,
                        has_default,
                        IF has_default THEN <<SExpr(LitInt(3))>> ELSE <<>>))>>
Conditionals ==
    {P_conditional(v1, v2, d) : v1 \in {LitTrue, LitFalse}, v2 \in {LitTrue, LitFalse},
                                d \in BOOLEAN}
P_jump_in_func_block ==
    <<SExpr(Assign(Ident("f"), Func(<<>>, <<SExpr(Block(<<SJump("L")>>))>>))),
      SLabel("L", LitNil)>>
P_jump_in_func == <<SExpr(Assign(Ident("f"), Func(<<>>, <<SJump("L")>>)))>>
P_arity ==
    <<SExpr(Assign(Ident("f"), Func(<<"a">>, <<SExpr(Ident("a"))>>))),
      SExpr(CallExpr(Ident("f"), <<>>))>>
P_call ==
    <<SExpr(Assign(Ident("f"), Func(<<"a">>, <<SExpr(Ident("a"))>>))),
      SExpr(CallExpr(Ident("f"), <<LitInt(5)>>))>>
P_call_no_value ==
    <<SExpr(LitInt(1)),
      SExpr(CallExpr(Func(<<>>, <<SExpr(Loop(LitFalse, <<SExpr(LitInt(1))>>))>>), <<>>))>>
P_bad_assign == <<SExpr(LitInt(4)), SExpr(Assign(LitInt(1), LitInt(2)))>>
P_ellipsis == <<SExpr(LitEllipsis)>>
P_assign_ellipsis == <<SExpr(Assign(Ident("x"), LitEllipsis))>>
P_type_err == <<SExpr(Block(<<SExpr(BinExpr(LitInt(1), "Add", LitNil))>>))>>
P_break_in_func ==
    <<SExpr(Loop(LitTrue, <<SExpr(CallExpr(Func(<<>>, <<SBreak(LitNil)>>), <<>>)),
                            SBreak(LitNil)>>))>>
P_empty_block ==
    <<SExpr(LitInt(1)), SExpr(Block(<<SExpr(Loop(LitFalse, <<SExpr(LitInt(1))>>))>>))>>
P_block_value ==
    <<SExpr(LitInt(1)), SExpr(Block(<<SExpr(LitInt(2)), SExpr(LitInt(3))>>))>>
P_not_int == <<SExpr(If(UnExpr("Not", LitInt(0)), <<SExpr(UnExpr("Negate", LitInt(1)))>>))>>
P_cond_else ==
    <<SExpr(Conditional(<<<<LitFalse, <<SExpr(LitInt(1))>>>>,
                          <<BinExpr(LitInt(1), "LessThan", LitInt(2)), <<SExpr(LitInt(2))>>>>>>,
                        TRUE, <<SExpr(LitInt(3))>>))>>

Scenarios ==
    {P_add, P_loop3, P_main, P_main_then_f, P_f_then_main, P_main_in_block, P_jump,
     P_jump_in_block, P_call_no_value, P_ellipsis, P_assign_ellipsis,
     P_break_value, P_jump_in_func_block, P_jump_in_func, P_arity, P_call, P_type_err,
     P_break_in_func, P_empty_block, P_block_value, P_not_int, P_cond_else,
     P_break_direct, P_break_after_value, P_loop_continue}

\* the files a run of the interpreter is given
Files == Scenarios \cup Generated \cup Conditionals

\* the lines typed in a REPL session
Lines ==
    {P_add, P_type_err, P_arity, P_jump_in_func, P_bad_assign,
     <<SExpr(Assign(Ident("x"), LitInt(0)))>>,
     <<SExpr(BinExpr(Ident("x"), "AddEqual", LitInt(1)))>>,
     <<SExpr(Block(<<SExpr(Ident("x"))>>))>>,
     <<SExpr(Assign(Ident("f"), ConstFunc))>>,
     <<SExpr(CallExpr(Ident("f"), <<>>))>>}

\* chunks built by hand, as the VM's tests do: constants to add, then code
Raw(pool, code) == [source |-> FALSE, statements |-> <<>>, pool |-> pool, code |-> code]

\* a parsed program: the statements of an ast::Program
Source(statements) ==
    [source |-> TRUE, statements |-> statements, pool |-> <<>>, code |-> <<>>]
\* what a chunk may run before it declares x: nothing, x declared and set in
\* the current namespace, x declared and set in an outer namespace only, a
\* new scope with x nowhere
Priors ==
    {<<>>,
     <<DeclareVar("x"), LoadConst(2), AssignVar("x")>>,
     <<DeclareVar("x"), LoadConst(2), AssignVar("x"), ScopeStart>>,
     <<ScopeStart>>}

\* what puts the value on top: a constant, or a variable of another name
Loaders == {<<LoadConst(1)>>, <<DeclareVar("a"), LoadConst(1), AssignVar("a"), LoadVar("a")>>}

DeclareAssignLoad == <<DeclareVar("x"), AssignVar("x"), LoadVar("x")>>

DeclChunks == {Raw(<<>>, p \o l \o DeclareAssignLoad) : p \in Priors, l \in Loaders}

\* integers a chunk hands to HaltTop
ExitValues == {-1, 0, 255, 257}

\* conditional jumps and AsBool over the Ints 0 and 2
IntConditions ==
    Raw(<<IntObj(0), IntObj(2)>>,
        <<LoadConst(3), JumpIfNot(3, 0), NoOp,
          LoadConst(4), JumpIfNot(6, 0), NoOp,
          LoadConst(3), JumpIfElse(8, 9, 0), NoOp,
          LoadConst(4), JumpIfElse(11, 12, 0), NoOp,
          LoadConst(3), UnaryOp("AsBool"),
          LoadConst(4), UnaryOp("AsBool")>>)

RawChunks ==
    {Raw(<<IntObj(v)>>, <<LoadConst(3), HaltTop>>) : v \in ExitValues}
    \cup DeclChunks
    \cup
    {Raw(<<>>, <<>>),
     Raw(<<>>, <<LoadConst(0), HaltTop>>),
     Raw(<<>>, <<DeclareVar("_"), LoadConst(0), AssignVar("_"), Truncate(0)>>),
     Raw(<<>>, <<LoadConst(0), Jump(2, 0)>>),
     Raw(<<IntObj(1), IntObj(2)>>, <<LoadConst(3), LoadConst(4), BinaryOp("Add"), Halt(0)>>),
     Raw(<<>>, <<LoadConst(0)>>),
     Raw(<<>>, <<ScopeStart, LoadConst(0), Halt(0)>>),
     Raw(<<>>, <<ScopeStart, LoadConst(0), ScopeEnd>>),
     Raw(<<>>, <<LoadConst(1), JumpIf(3, 0), NoOp>>),
     Raw(<<>>, <<LoadConst(1), JumpIf(4, 0), NoOp>>),
     Raw(<<IntObj(256)>>, <<LoadConst(3), HaltTop>>),
     Raw(<<IntObj(7)>>, <<LoadConst(3), HaltTop>>),
     Raw(<<>>, <<HaltTop>>),
     Raw(<<>>, <<Placeholder(0, "Jump")>>),
     Raw(<<>>, <<DeclareVar("x"), LoadConst(1), AssignVar("x"), Return>>),
     IntConditions}

\* ------------------------------------------------------------------------
\* The executor

\* Scanner::new on a source that holds text
Scanner_new(input) ==
    /\ text = input
    /\ source = input
    /\ queue = <<>>
    /\ indent_level = 0
    /\ inline_scope_stack = <<>>
    /\ bracket_stack = <<>>
    /\ previous_token = "EndOfStatement"
    /\ tokens = <<>>
    /\ scan_err = ""
    /\ scan_err_n = 0
    /\ scan_err_loc = 0
    /\ number = [kind |-> "None"]

\* Parser::new over the tokens a scanner will return
Parser_new(stream) ==
    /\ token_stream = stream
    /\ precedence = 0
    /\ parsed = <<>>
    /\ parse_result = ""

\* Repl::new, and Repl::run about to read the first line
Repl_new ==
    /\ prompt = "primary"
    /\ repl_input = <<>>
    /\ blank_line_count = 0
    /\ exe_result = [ok |-> TRUE, src |-> "", kind |-> "None", code |-> 0]
    /\ no_continue = FALSE
    /\ exit_result = ""
    /\ evals = 0
    /\ diagnostic = FALSE
    /\ evaluated = <<>>

\* no operation of Int has been called
Int_idle ==
    /\ operation = [op |-> "", self |-> NilObj, rhs |-> NilObj]
    /\ outcome = [kind |-> "None", obj |-> NilObj]

\* a VM and an executor as constructed, nothing executed yet
VM_new ==
    /\ program = Raw(<<>>, <<>>)
    /\ incremental \in BOOLEAN
    /\ chunk = <<>>
    /\ comp = [err |-> "", has_main |-> FALSE, log |-> <<>>, compiled |-> FALSE]
    /\ consts = InitConsts
    /\ funcs = <<>>
    /\ ns_stack = InitNamespaces
    /\ value_stack = <<>>
    /\ scope_stack = <<>>
    /\ frames = <<>>
    /\ result = Res("None", 0, "")
    /\ pre = [scope |-> 0, ns |-> 1, vs |-> 0]
    /\ steps = 0
    /\ runs = 0

Init ==
    VM_new /\ Scanner_new(<<>>) /\ Parser_new(<<>>) /\ Repl_new /\ Int_idle /\ overflow_checks = TRUE

\* the executor is free to take the next program
Ready ==
    /\ result.kind \notin {"Running", "Panic"}
    /\ runs < (IF incremental THEN MaxRuns ELSE 1)

\* VM::execute is entered with a chunk: ip = 0, and chunk[0] is matched
Enter(ch) ==
    /\ chunk' = ch
    /\ pre' = [scope |-> Len(scope_stack), ns |-> Len(ns_stack), vs |-> Len(value_stack)]
    /\ steps' = 0
    /\ runs' = runs + 1
    /\ IF ch = <<>>
       THEN frames' = <<>> /\ result' = Res("Panic", 0, "IndexOutOfBounds")
       ELSE frames' = <<Frame(0, 0)>> /\ result' = Res("Running", 0, "")

\* Executor::execute_source from the parsed program on: compile, and when
\* that succeeds execute_chunk
ExecuteSource ==
    /\ Ready
    /\ \E p \in (IF incremental THEN Lines ELSE Files) :
         LET c == compile(consts, funcs, p)
         IN /\ program' = Source(p)
            /\ consts' = c.consts
            /\ funcs' = c.funcs
            /\ comp' = [err |-> c.err, has_main |-> c.has_main, log |-> c.log,
                       compiled |-> (c.err = "")]
            /\ IF c.err # ""
               THEN /\ chunk' = <<>>
                    /\ frames' = <<>>
                    /\ result' = Res("CompErr", 0, c.err)
                    /\ runs' = runs + 1
                    /\ UNCHANGED <<pre, steps>>
               ELSE Enter(c.chunk)
    /\ UNCHANGED <<incremental, ns_stack, value_stack, scope_stack, front_vars>>

\* Executor::execute_chunk on a chunk built by hand
ExecuteChunk ==
    /\ Ready
    /\ ~incremental
    /\ \E r \in RawChunks :
         /\ program' = r
         /\ consts' = consts \o r.pool
         /\ Enter(r.code)
    /\ comp' = [err |-> "", has_main |-> FALSE, log |-> <<>>, compiled |-> FALSE]
    /\ UNCHANGED <<incremental, funcs, ns_stack, value_stack, scope_stack, front_vars>>

Next ==
    \/ ExecuteSource
    \/ ExecuteChunk
    \/ ExecNoOp
    \/ ExecTruncate
    \/ ExecLoadConst
    \/ ExecScopeStart
    \/ ExecScopeEnd
    \/ ExecDeclareVar
    \/ ExecAssignVar
    \/ ExecLoadVar
    \/ ExecJump
    \/ ExecJumpIf
    \/ ExecJumpIfNot
    \/ ExecJumpIfElse
    \/ ExecUnaryOp
    \/ ExecBinaryOp
    \/ ExecCall
    \/ FuncReturn
    \/ ExecReturn
    \/ ExecPlaceholder
    \/ ExecBreakPlaceholder
    \/ ExecContinuePlaceholder
    \/ ExecHalt
    \/ ExecHaltTop

Spec == Init /\ [][Next]_vars

\* ------------------------------------------------------------------------
\* Scanner
\*
\* The input is a sequence of items.  An item is one character, except that
\* a word and the arrow `->` stand for the characters they are made of.

Words == {"a", "block", "if", "else"}
Items == Words \cup {" ", "\t", "\n", "#", "->", "(", ")", "[", "]", ",", "?"}

\* whitespace other than the newline
Blank == {" ", "\t"}

Spaces(n) == [i \in 1..n |-> " "]

\* the number of items at the front of the sequence s that are in set
LeadingOf(s, set) ==
    IF \A i \in 1..Len(s) : s[i] \in set THEN Len(s)
    ELSE (CHOOSE i \in 1..Len(s) :
            s[i] \notin set /\ \A j \in 1..(i - 1) : s[j] \in set) - 1

\* the same of src, an expression that is evaluated once
Leading(src, set) == CHOOSE n \in {LeadingOf(s, set) : s \in {src}} : TRUE

\* source.next() n times
Drop(src, n) == SubSeq(src, n + 1, Len(src))

\* Scanner::consume_whitespace: up to the end of the line
consume_whitespace(src) == Drop(src, Leading(src, Blank))

\* Scanner::consume_comment: up to the newline
consume_comment(src) == Drop(src, Leading(src, Items \ {"\n"}))

IndentResult(err, level, rest, n) == [err |-> err, level |-> level, rest |-> rest, n |-> n]

\* the counts of consume_contiguous and consume_whitespace are u8
U8 == 2 ^ 8

\* a u8 after n increments from 0, in a build where overflow wraps
wrapped(n) == n % U8

\* get_next_indent_level loops over lines.  A round starts where a line
\* starts: at offset 0 of src or after a newline (the round after a comment
\* starts at the newline that ends the comment, with counts of zero).
LineOffsets(src) == {0} \cup {i \in 1..Len(src) : src[i] = "\n"}

\* the line at offset k after consume_contiguous(' ') and consume_whitespace()
AfterIndent(src, k) == consume_whitespace(Drop(src, k))

\* the round at offset k ends in `continue`: a blank line or a comment
Skipped(src, k) ==
    AfterIndent(src, k) # <<>> /\ Head(AfterIndent(src, k)) \in {"\n", "#"}

\* the count of spaces or of whitespace of the round at offset k passes 255
Overflows(src, k) ==
    \/ Leading(Drop(src, k), {" "}) >= U8
    \/ Leading(Drop(src, k + Leading(Drop(src, k), {" "})), Blank) >= U8

\* the round that ends the loop: rest is the line after its spaces and
\* whitespace, which the two counts counted
indent_of_line(spaces, whitespace, rest) ==
    IF rest = <<>> THEN IndentResult("", 0, rest, 0)
    ELSE IF wrapped(spaces) % 4 # 0
    THEN IndentResult("InvalidIndent", 0, rest, wrapped(spaces))
    ELSE IF wrapped(whitespace) > 0
    THEN IndentResult("WhitespaceAfterIndent", 0, rest, 0)
    ELSE IndentResult("", wrapped(spaces) \div 4, rest, 0)

\* the loop ends in the round at offset k, unless a count overflowed in a
\* build that checks for it
indent_at(src, k) ==
    IF overflow_checks /\ \E j \in LineOffsets(src) : j <= k /\ Overflows(src, j)
    THEN IndentResult("Panic", 0, AfterIndent(src, k), 0)
    ELSE indent_of_line(Leading(Drop(src, k), {" "}),
                        Leading(Drop(src, k + Leading(Drop(src, k), {" "})), Blank),
                        AfterIndent(src, k))

\* Scanner::get_next_indent_level: blank lines and comment lines are skipped
get_next_indent_level(src) ==
    IF \A k \in LineOffsets(src) : Skipped(src, k)
    THEN IF overflow_checks /\ \E j \in LineOffsets(src) : Overflows(src, j)
         THEN IndentResult("Panic", 0, <<>>, 0)
         ELSE IndentResult("", 0, <<>>, 0)
    ELSE indent_at(src, CHOOSE k \in LineOffsets(src) :
                          /\ ~Skipped(src, k)
                          /\ \A j \in LineOffsets(src) : j < k => Skipped(src, j))

\* a dedent that leaves one block however many levels it drops
exit_one_block_scope(count) ==
    IF count = 0 THEN <<>> ELSE <<"ScopeEnd", "EndOfStatement">>

\* Scanner::exit_block_scope, count times
RECURSIVE exit_block_scopes(_)
exit_block_scopes(count) ==
    IF count = 0 THEN <<>>
    ELSE <<"ScopeEnd", "EndOfStatement">> \o exit_block_scopes(count - 1)

LevelResult(err, level, toks) == [err |-> err, level |-> level, toks |-> toks, n |-> 0]

\* an error that carries a number
LevelErr(err, n, level) == [err |-> err, level |-> level, toks |-> <<>>, n |-> n]

\* an indent level that may rise by any number of levels
set_indent_level_any(current_level, level) ==
    IF level >= current_level THEN LevelResult("", level, <<>>)
    ELSE LevelResult("", level, exit_block_scopes(current_level - level))

\* Scanner::set_indent_level: the new indent_level and the tokens queued
set_indent_level(current_level, level) ==
    IF level = current_level THEN LevelResult("", current_level, <<>>)
    ELSE IF level = current_level + 1 THEN LevelResult("", level, <<>>)
    ELSE IF level < current_level
    THEN LevelResult("", level, exit_block_scopes(current_level - level))
    ELSE LevelErr("UnexpectedIndent", level, current_level)

\* Scanner::expect_indent, r being what get_next_indent_level returned
expect_indent(current_level, r) ==
    IF r.err # "" THEN LevelErr(r.err, r.n, current_level)
    ELSE IF r.level < current_level + 1
    THEN LevelErr("ExpectedIndentedBlock", current_level + 1, current_level)
    ELSE set_indent_level(current_level, r.level)

\* Scanner::dedent, r being what get_next_indent_level returned
dedent(current_level, r) ==
    IF r.err # "" THEN LevelErr(r.err, r.n, current_level)
    ELSE IF r.level > current_level
    THEN LevelErr("UnexpectedIndent", r.level, current_level)
    ELSE set_indent_level(current_level, r.level)

\* Scanner::exit_inline_scope: how many inline scopes it pops
RECURSIVE inline_exits(_, _)
inline_exits(stack, is_else) ==
    IF stack = <<>> THEN 0
    ELSE IF is_else /\ Peek(stack).token \in {"If", "Else"} THEN 1
    ELSE 1 + inline_exits(Pop(stack), is_else)

InlineScopeEnds(n) == [i \in 1..n |-> "InlineScopeEnd"]

\* Scanner::maybe_add_end_of_statement_token
maybe_add_end_of_statement_token(prev) ==
    IF prev \in {"EndOfStatement", "InlineScopeStart", "InlineScopeEnd", "ScopeStart",
                 "ScopeEnd"}
    THEN <<>> ELSE <<"EndOfStatement">>

\* the token of a word: a keyword, else an identifier
WordToken(w) ==
    CASE w = "block" -> "Block"
      [] w = "if" -> "If"
      [] w = "else" -> "Else"
      [] OTHER -> "Ident"

\* Source::loc with src still to read: the position of the next character
Loc(src) == Len(text) - Len(src) + 1

\* the location of the error of expect_indent or dedent: where
\* get_next_indent_level stopped, or the start of the line
ErrLoc(e, r, line) ==
    IF e.err \in {"", "Panic"} THEN 0
    ELSE IF r.err # "" THEN Loc(r.rest)
    ELSE Loc(line)

\* next_token_from_queue finds the queue empty and calls add_tokens_to_queue
AddTokens ==
    /\ scan_err = ""
    /\ previous_token # "EndOfInput"
    /\ queue = <<>>

\* an identifier or a keyword; `else` ends the inline scopes up to its `if`
ScanWord ==
    /\ AddTokens
    /\ source # <<>>
    /\ Head(source) \in Words
    /\ IF Head(source) = "else"
       THEN /\ queue' = Append(InlineScopeEnds(inline_exits(inline_scope_stack, TRUE)),
                               "Else")
            /\ inline_scope_stack' =
                 SubSeq(inline_scope_stack, 1,
                        Len(inline_scope_stack) - inline_exits(inline_scope_stack, TRUE))
       ELSE /\ queue' = <<WordToken(Head(source))>>
            /\ UNCHANGED inline_scope_stack
    /\ source' = consume_whitespace(Tail(source))
    /\ UNCHANGED <<indent_level, bracket_stack, previous_token, tokens, scan_err, scan_err_n, scan_err_loc, fixed>>

\* the source after `->`, the whitespace and the comment that follow it
after_arrow(src) ==
    IF consume_whitespace(Tail(src)) # <<>> /\ Head(consume_whitespace(Tail(src))) = "#"
    THEN consume_comment(consume_whitespace(Tail(src)))
    ELSE consume_whitespace(Tail(src))

\* a `->` arm that calls expect_indent and queues no ScopeStart
BlockStartUnqueued(r, e) ==
    /\ queue' = e.toks
    /\ source' = r.rest
    /\ indent_level' = e.level
    /\ scan_err' = e.err
    /\ scan_err_n' = e.n
    /\ scan_err_loc' = ErrLoc(e, r, Tail(after_arrow(source)))
    /\ UNCHANGED <<inline_scope_stack, bracket_stack, previous_token, tokens>>

\* `->` and a newline: ScopeStart and expect_indent
BlockStart(r, e) ==
    /\ queue' = <<"ScopeStart">> \o e.toks
    /\ source' = r.rest
    /\ indent_level' = e.level
    /\ scan_err' = e.err
    /\ scan_err_n' = e.n
    /\ scan_err_loc' = ErrLoc(e, r, Tail(after_arrow(source)))
    /\ UNCHANGED <<inline_scope_stack, bracket_stack, previous_token, tokens>>

ScanArrow ==
    /\ AddTokens
    /\ source # <<>>
    /\ Head(source) = "->"
    /\ IF after_arrow(source) = <<>>
       THEN /\ scan_err' = "ExpectedBlock"
            /\ scan_err_n' = 0
            /\ scan_err_loc' = Loc(<<>>)
            /\ source' = <<>>
            /\ UNCHANGED <<queue, indent_level, inline_scope_stack, bracket_stack,
                           previous_token, tokens>>
       ELSE IF Head(after_arrow(source)) = "\n"
       THEN \E r \in {get_next_indent_level(Tail(after_arrow(source)))} :
                \E e \in {expect_indent(indent_level, r)} : BlockStart(r, e)
       ELSE /\ queue' = <<"InlineScopeStart">>
            /\ inline_scope_stack' =
                 Append(inline_scope_stack, [token |-> previous_token, loc |-> Loc(source)])
            /\ source' = after_arrow(source)
            /\ UNCHANGED <<indent_level, bracket_stack, previous_token, tokens, scan_err, scan_err_n, scan_err_loc>>
    /\ UNCHANGED fixed

\* a newline outside brackets: the inline scopes end, the statement ends,
\* and dedent looks at the next line
LineEnd(r, d) ==
    /\ queue' = InlineScopeEnds(Len(inline_scope_stack))
                \o maybe_add_end_of_statement_token(previous_token) \o d.toks
    /\ inline_scope_stack' = <<>>
    /\ source' = r.rest
    /\ indent_level' = d.level
    /\ scan_err' = d.err
    /\ scan_err_n' = d.n
    /\ scan_err_loc' = ErrLoc(d, r, Tail(source))
    /\ UNCHANGED <<bracket_stack, previous_token, tokens>>

ScanNewline ==
    /\ AddTokens
    /\ source # <<>>
    /\ Head(source) = "\n"
    /\ IF bracket_stack = <<>>
       THEN \E r \in {get_next_indent_level(Tail(source))} :
                \E d \in {dedent(indent_level, r)} : LineEnd(r, d)
       ELSE /\ source' = consume_whitespace(Tail(source))
            /\ UNCHANGED <<queue, indent_level, inline_scope_stack, bracket_stack,
                           previous_token, tokens, scan_err, scan_err_n, scan_err_loc>>
    /\ UNCHANGED fixed

\* a comment arm that returns without consuming the comment
ScanCommentUnread ==
    /\ AddTokens
    /\ source # <<>>
    /\ Head(source) = "#"
    /\ UNCHANGED vars

\* a comment: it is consumed up to the newline and nothing is queued
ScanComment ==
    /\ AddTokens
    /\ source # <<>>
    /\ Head(source) = "#"
    /\ source' = consume_comment(Tail(source))
    /\ UNCHANGED <<queue, indent_level, inline_scope_stack, bracket_stack,
                   previous_token, tokens, scan_err, scan_err_n, scan_err_loc, fixed>>

ScanOpen ==
    /\ AddTokens
    /\ source # <<>>
    /\ Head(source) \in {"(", "["}
    /\ bracket_stack' = Append(bracket_stack, [c |-> Head(source), loc |-> Loc(source)])
    /\ queue' = <<IF Head(source) = "(" THEN "LParen" ELSE "LBracket">>
    /\ source' = consume_whitespace(Tail(source))
    /\ UNCHANGED <<indent_level, inline_scope_stack, previous_token, tokens, scan_err,
                   scan_err_n, scan_err_loc, fixed>>

\* a match that takes every closing bracket for a parenthesis
OpeningParen(c) == "("

\* the opening bracket a closing bracket matches
Opening(c) == IF c = ")" THEN "(" ELSE "["

\* maybe_exit_inline_scope, then pop_bracket_and_return_token
ScanClose ==
    /\ AddTokens
    /\ source # <<>>
    /\ Head(source) \in {")", "]"}
    /\ inline_scope_stack' = <<>>
    /\ bracket_stack' = IF bracket_stack = <<>> THEN bracket_stack ELSE Pop(bracket_stack)
    /\ IF bracket_stack # <<>> /\ Peek(bracket_stack).c = Opening(Head(source))
       THEN /\ queue' = Append(InlineScopeEnds(Len(inline_scope_stack)),
                               IF Head(source) = ")" THEN "RParen" ELSE "RBracket")
            /\ source' = consume_whitespace(Tail(source))
            /\ UNCHANGED <<scan_err, scan_err_n, scan_err_loc>>
       ELSE /\ queue' = InlineScopeEnds(Len(inline_scope_stack))
            /\ source' = Tail(source)
            /\ scan_err' = "UnmatchedClosingBracket"
            /\ scan_err_n' = 0
            /\ scan_err_loc' = Loc(source)
    /\ UNCHANGED <<indent_level, previous_token, tokens, fixed>>

ScanComma ==
    /\ AddTokens
    /\ source # <<>>
    /\ Head(source) = ","
    /\ inline_scope_stack' = <<>>
    /\ queue' = Append(InlineScopeEnds(Len(inline_scope_stack)), "Comma")
    /\ source' = consume_whitespace(Tail(source))
    /\ UNCHANGED <<indent_level, bracket_stack, previous_token, tokens, scan_err, scan_err_n, scan_err_loc, fixed>>

\* whitespace where a token should start, or a character that starts no token
ScanUnexpected ==
    /\ AddTokens
    /\ source # <<>>
    /\ Head(source) \in Blank \cup {"?"}
    /\ scan_err' = IF Head(source) \in Blank THEN "UnexpectedWhitespace" ELSE "UnexpectedChar"
    /\ scan_err_n' = 0
    /\ scan_err_loc' = Loc(source)
    /\ source' = Tail(source)
    /\ UNCHANGED <<queue, indent_level, inline_scope_stack, bracket_stack, previous_token,
                   tokens, fixed>>

\* end of input: the open blocks end, or a bracket was left open
ScanEnd ==
    /\ AddTokens
    /\ source = <<>>
    /\ IF bracket_stack = <<>>
       THEN /\ queue' = InlineScopeEnds(Len(inline_scope_stack))
                        \o maybe_add_end_of_statement_token(previous_token)
                        \o set_indent_level(indent_level, 0).toks
                        \o <<"EndOfInput">>
            /\ inline_scope_stack' = <<>>
            /\ indent_level' = set_indent_level(indent_level, 0).level
            /\ UNCHANGED <<bracket_stack, scan_err, scan_err_n, scan_err_loc>>
       ELSE /\ scan_err' = "UnmatchedOpeningBracket"
            /\ scan_err_n' = 0
            /\ scan_err_loc' = Peek(bracket_stack).loc
            /\ bracket_stack' = Pop(bracket_stack)
            /\ UNCHANGED <<queue, inline_scope_stack, indent_level>>
    /\ UNCHANGED <<source, previous_token, tokens, fixed>>

\* next_token_from_queue: the token at the front of the queue is returned
NextToken ==
    /\ scan_err = ""
    /\ queue # <<>>
    /\ previous_token' = Head(queue)
    /\ tokens' = Append(tokens, Head(queue))
    /\ queue' = Tail(queue)
    /\ UNCHANGED <<source, indent_level, inline_scope_stack, bracket_stack, scan_err,
                   scan_err_n, scan_err_loc, fixed>>

\* the texts handed to the scanner: lines of a statement or a block opener,
\* each at an indentation level; the first line is not indented
LineBodies == {<<"a">>, <<"block", " ", "->">>}

CodeLines(levels) == {Spaces(4 * l) \o b : l \in levels, b \in LineBodies}

RECURSIVE MoreLines(_)
MoreLines(n) ==
    IF n = 0 THEN {<<>>}
    ELSE {<<>>} \cup {<<"\n">> \o l \o t : l \in CodeLines(0..MaxIndent), t \in MoreLines(n - 1)}

GeneratedTexts ==
    {l \o t \o e : l \in CodeLines({0}), t \in MoreLines(MaxLines - 1), e \in {<<>>, <<"\n">>}}

\* texts with inline blocks, brackets, comments, blank lines and bad
\* indentation
ScannedTexts ==
    {<<"block", " ", "->", " ", "a", "\n">>,
     <<"if", " ", "a", " ", "->", " ", "a", " ", "else", " ", "->", " ", "a", "\n">>,
     <<"(", "block", " ", "->", " ", "a", ",", " ", "a", ")", "\n">>,
     <<"(", "a", "\n", " ", " ", " ", " ", " ", " ", " ", " ", "a", ")", "\n", "a">>,
     <<"[", "a", "\n", "]", "\n">>,
     <<"(", "block", " ", "->", "\n"," ", " ", " ", " ", "a", "\n", ")", "\n", "a", "\n">>,
     <<"block", " ", "->", "\n", "\n", " ", " ", "#", "a", "\n",
       " ", " ", " ", " ", "a", "\n", "\n", "a", "\n">>,
     <<"block", " ", "->", " ", "#", "a", "\n", " ", " ", " ", " ", "a", " ", "#", "a">>,
     <<"block", " ", "->", "\n", " ", " ", " ", " ", "a", "\n", "#", "a", "\n">>,
     <<"block", " ", "->", "\n", " ", " ", "a">>,
     <<"block", " ", "->", "\n", " ", " ", " ", " ", "\t", "a">>,
     <<"block", " ", "->", "\n", " ", " ", " ", " ", "block", " ", "->", "\n",
       " ", " ", " ", " ", " ", " ", " ", " ", "a", "\n", "a", "\n">>,
     <<"block", " ", "->", "\n", " ", " ", " ", " ", "block", " ", "->", " ", "a", "\n",
       "a">>,
     <<"a", "\n", " ", " ", " ", "\n", "\t", "\n", " ", " ", "#", "a", "\n", "a", "\n">>,
     <<"a", "\n", " ", " ", " ", "a">>,
     <<"block", " ", "->", " ", "a", "\n", " ", "a">>,
     <<"a", "\n", "\t", "a">>,
     <<"block", " ", "->", " ", "(", "a", ",", " ", "a", ")", "\n">>,
     <<"block", " ", "->", " ", "(", "block", " ", "->", " ", "a", ",", " ", "a", ")", "\n">>,
     <<"[", "block", " ", "->", " ", "(", "a", ")", "]">>,
     <<"a", " ", "?">>,
     <<"(", "a", "\n", "\n", " ", "#", "?", "\n", "a", ")", " ", "#", "a", "\n", "\n", "a", "\n">>,
     <<"a", ")">>,
     <<"(", "a", "]">>,
     <<"(", "a", "\n">>}

\* texts of brackets, nested or not, matched or not
RECURSIVE BracketTexts(_)
BracketTexts(n) ==
    IF n = 0 THEN {<<>>}
    ELSE BracketTexts(n - 1)
         \cup {Append(t, c) : t \in BracketTexts(n - 1), c \in {"(", ")", "[", "]"}}

Texts == GeneratedTexts \cup ScannedTexts \cup BracketTexts(MaxBrackets)

ScanInit ==
    /\ VM_new
    /\ incremental = FALSE
    /\ overflow_checks \in BOOLEAN
    /\ \E input \in Texts : Scanner_new(input)
    /\ Parser_new(<<>>)
    /\ Repl_new
    /\ Int_idle

ScanNext ==
    \/ ScanWord
    \/ ScanArrow
    \/ ScanNewline
    \/ ScanComment
    \/ ScanOpen
    \/ ScanClose
    \/ ScanComma
    \/ ScanUnexpected
    \/ ScanEnd
    \/ NextToken

ScanSpec == ScanInit /\ [][ScanNext]_vars

\* the scanner's consumer asks for the next token until the end of the input
\* or an error
ScanLive == ScanSpec /\ WF_vars(ScanNext)

\* ------------------------------------------------------------------------
\* Numbers.  In the texts of numbers every item is one character.

DecDigits == <<"0", "1", "2", "3", "4", "5", "6", "7", "8", "9">>
LowerDigits == DecDigits \o <<"a", "b", "c", "d", "e", "f">>
UpperDigits == DecDigits \o <<"A", "B", "C", "D", "E", "F">>

AsciiLetters ==
    {"a", "b", "c", "d", "e", "f", "g", "h", "i", "j", "k", "l", "m", "n", "o", "p", "q",
     "r", "s", "t", "u", "v", "w", "x", "y", "z",
     "A", "B", "C", "D", "E", "F", "G", "H", "I", "J", "K", "L", "M", "N", "O", "P", "Q",
     "R", "S", "T", "U", "V", "W", "X", "Y", "Z"}

\* char::to_digit(16), -1 for None
to_digit(c) ==
    IF \E i \in 1..16 : LowerDigits[i] = c
    THEN (CHOOSE i \in 1..16 : LowerDigits[i] = c) - 1
    ELSE IF \E i \in 1..16 : UpperDigits[i] = c
    THEN (CHOOSE i \in 1..16 : UpperDigits[i] = c) - 1
    ELSE -1

\* char::is_digit(radix)
is_digit(c, radix) == to_digit(c) >= 0 /\ to_digit(c) < radix

Collected(digit, more) == [digits |-> <<digit>> \o more.digits, rest |-> more.rest]

\* Scanner::collect_digits: digits, each with at most one underscore before it
RECURSIVE collect_digits(_, _)
collect_digits(src, radix) ==
    IF src # <<>> /\ is_digit(Head(src), radix)
    THEN Collected(Head(src), collect_digits(Tail(src), radix))
    ELSE IF Len(src) >= 2 /\ src[1] = "_" /\ is_digit(src[2], radix)
    THEN Collected(src[2], collect_digits(Drop(src, 2), radix))
    ELSE [digits |-> <<>>, rest |-> src]

\* read_number: the radix the characters after the first digit select, 0 for
\* the panic on an unsupported type character
number_radix(first_digit, src) ==
    IF first_digit # "0" \/ src = <<>> THEN 10
    ELSE IF Head(src) \in {"b", "B"} THEN 2
    ELSE IF Head(src) \in {"o", "O"} THEN 8
    ELSE IF Head(src) \in {"x", "X"} THEN 16
    ELSE IF Head(src) \in AsciiLetters THEN 0
    ELSE 10

Number(string, radix, rest) == [string |-> string, radix |-> radix, rest |-> rest]

\* read_number: string and what collect_digits returned are put together
Digits(string, radix, more) == Number(string \o more.digits, radix, more.rest)

\* read_number: a dot and a digit, and the digits after them
with_fraction(num) ==
    IF Len(num.rest) >= 2 /\ num.rest[1] = "." /\ is_digit(num.rest[2], 10)
    THEN Digits(num.string \o <<".", num.rest[2]>>, 10,
                collect_digits(Drop(num.rest, 2), 10))
    ELSE num

\* read_number: E notation without a sign
with_exponent(num) ==
    IF Len(num.rest) >= 2 /\ num.rest[1] \in {"e", "E"} /\ is_digit(num.rest[2], 10)
    THEN Digits(num.string \o <<"E", "+", num.rest[2]>>, 10,
                collect_digits(Drop(num.rest, 2), 10))
    ELSE num

\* read_number: E notation with a sign
with_signed_exponent(num) ==
    IF /\ Len(num.rest) >= 3
       /\ num.rest[1] \in {"e", "E"}
       /\ num.rest[2] \in {"+", "-"}
       /\ is_digit(num.rest[3], 10)
    THEN Digits(num.string \o <<"E", num.rest[2], num.rest[3]>>, 10,
                collect_digits(Drop(num.rest, 3), 10))
    ELSE num

\* Scanner::read_number, src being the input after first_digit
read_number_in(first_digit, src, radix) ==
    IF radix = 0 THEN Number(<<>>, 0, src)
    ELSE IF radix = 10
    THEN with_signed_exponent(with_exponent(with_fraction(
             Digits(<<first_digit>>, 10, collect_digits(src, 10)))))
    ELSE Digits(<<>>, radix, collect_digits(Tail(src), radix))

read_number(first_digit, src) ==
    read_number_in(first_digit, src, number_radix(first_digit, src))

contains(string, c) == \E i \in 1..Len(string) : string[i] = c

\* BigInt::from_str_radix on a string of digits of the radix
RECURSIVE from_str_radix(_, _)
from_str_radix(string, radix) ==
    IF string = <<>> THEN 0
    ELSE from_str_radix(Pop(string), radix) * radix + to_digit(Peek(string))

AllDecimal(string) == \A i \in 1..Len(string) : is_digit(string[i], 10)

\* the mantissa of a float literal: decimal digits, at most one dot
Mantissa(string) ==
    /\ \E i \in 1..Len(string) : is_digit(string[i], 10)
    /\ \A i \in 1..Len(string) : is_digit(string[i], 10) \/ string[i] = "."
    /\ \A i, j \in 1..Len(string) : (string[i] = "." /\ string[j] = ".") => i = j

\* the exponent of a float literal: decimal digits after an optional sign
Exponent(string) ==
    /\ string # <<>>
    /\ IF Head(string) \in {"+", "-"}
       THEN Tail(string) # <<>> /\ AllDecimal(Tail(string))
       ELSE AllDecimal(string)

\* str::parse::<f64> succeeds on string
parses_as_f64(string) ==
    \/ Mantissa(string)
    \/ \E i \in 1..Len(string) :
          /\ string[i] \in {"e", "E"}
          /\ Mantissa(SubSeq(string, 1, i - 1))
          /\ Exponent(SubSeq(string, i + 1, Len(string)))

\* an Int token carries its value; a Float token is kept as its literal
IntToken(value) == [kind |-> "Int", value |-> value]
FloatToken(string) == [kind |-> "Float", string |-> string]
NumberErr(err) == [kind |-> "Err", err |-> err]

\* a float is recognised by a dot or an E in the string whatever the radix
is_float(num) == contains(num.string, ".") \/ contains(num.string, "E")

\* add_tokens_to_queue: the token of what read_number returned
number_token_of(num, float) ==
    IF float
    THEN IF parses_as_f64(num.string) THEN FloatToken(num.string)
         ELSE NumberErr("ParseFloatErr")
    ELSE IF num.string = <<>> THEN NumberErr("ParseIntErr")
    ELSE IntToken(from_str_radix(num.string, num.radix))

number_token(num) == number_token_of(num, is_float(num))

\* the number has been read and its token is queued, or its error returned
NumberRead(num, token) ==
    /\ source' = IF token.kind = "Err" THEN num.rest ELSE consume_whitespace(num.rest)
    /\ queue' = IF token.kind = "Err" THEN queue ELSE <<token.kind>>
    /\ number' = IF token.kind = "Err" THEN number ELSE token
    /\ scan_err' = IF token.kind = "Err" THEN token.err ELSE ""
    /\ scan_err_loc' = IF token.kind = "Err" THEN Loc(source) ELSE 0

\* a decimal digit starts a number
ScanNumber ==
    /\ AddTokens
    /\ source # <<>>
    /\ is_digit(Head(source), 10)
    /\ IF number_radix(Head(source), Tail(source)) = 0
       THEN /\ scan_err' = "Panic"
            /\ UNCHANGED <<source, queue, number, scan_err_loc>>
       ELSE NumberRead(read_number(Head(source), Tail(source)),
                       number_token(read_number(Head(source), Tail(source))))
    /\ UNCHANGED <<indent_level, inline_scope_stack, bracket_stack, previous_token, tokens,
                   scan_err_n, vm_vars, text, overflow_checks, parser_vars, repl_vars, int_vars>>

\* the digits of the generated numbers of a radix
SampleDigits(radix) ==
    CASE radix = 2 -> {"0", "1"}
      [] radix = 8 -> {"0", "7"}
      [] radix = 10 -> {"0", "1", "9"}
      [] radix = 16 -> {"0", "9", "e", "E", "F"}

Prefixes(radix) ==
    CASE radix = 2 -> {<<"0", "b">>, <<"0", "B">>}
      [] radix = 8 -> {<<"0", "o">>, <<"0", "O">>}
      [] radix = 10 -> {<<>>}
      [] radix = 16 -> {<<"0", "x">>, <<"0", "X">>}

\* up to n digits, any of them but the first after one underscore
RECURSIVE DigitStrings(_, _)
DigitStrings(digits, n) ==
    IF n = 1 THEN {<<d>> : d \in digits}
    ELSE DigitStrings(digits, n - 1)
         \cup {s \o t : s \in DigitStrings(digits, n - 1),
                        t \in {<<d>> : d \in digits} \cup {<<"_", d>> : d \in digits}}

RadixLiterals ==
    UNION {{p \o d : p \in Prefixes(radix), d \in DigitStrings(SampleDigits(radix), MaxDigits)}
           : radix \in {2, 8, 10, 16}}

\* floats, a prefix without digits, and an unsupported type character
OtherNumbers ==
    {<<"1", ".", "5">>, <<"1", "e", "5">>, <<"1", "E", "-", "5">>, <<"1", ".", "5", "e", "+", "1">>,
     <<"1", "e", "5", "e", "+", "1">>, <<"0", "x">>, <<"0", "z">>, <<"1", "_", "0", " ">>}

NumInit ==
    /\ VM_new
    /\ incremental = FALSE
    /\ overflow_checks \in BOOLEAN
    /\ \E input \in RadixLiterals \cup OtherNumbers : Scanner_new(input)
    /\ Parser_new(<<>>)
    /\ Repl_new
    /\ Int_idle

NumNext ==
    \/ ScanNumber
    \/ ScanEnd
    \/ NextToken

NumSpec == NumInit /\ [][NumNext]_vars

\* texts with a line whose leading spaces pass the width of the counters
WideTexts ==
    {<<"a", "\n">> \o Spaces(U8 + 1) \o <<"a", "\n">>,
     <<"block", " ", "->", "\n">> \o Spaces(U8 + 2) \o <<"a">>}

WideInit ==
    /\ VM_new
    /\ incremental = FALSE
    /\ overflow_checks \in BOOLEAN
    /\ \E input \in Texts \cup WideTexts : Scanner_new(input)
    /\ Parser_new(<<>>)
    /\ Repl_new
    /\ Int_idle

WideSpec == WideInit /\ [][ScanNext]_vars

\* ------------------------------------------------------------------------
\* The parser (parser/parser.rs, parser/precedence.rs).  A token is the name
\* of its Token variant; an identifier is its name.

\* operators the generated lines may hold between two operands
MaxOperators == 3

Operands == <<"a", "b", "c", "d", "e", "f">>

Idents == {Operands[i] : i \in 1..Len(Operands)}

\* get_operator_precedence: the unary and the binary precedence of a token
get_operator_precedence(token) ==
    CASE token \in {"Equal", "MinusEqual", "PlusEqual"} -> <<0, 1>>
      [] token = "Or" -> <<0, 3>>
      [] token = "And" -> <<0, 4>>
      [] token \in {"EqualEqualEqual", "EqualEqual", "NotEqual", "LessThan",
                    "LessThanOrEqual", "GreaterThan", "GreaterThanOrEqual"} -> <<0, 5>>
      [] token \in {"Plus", "Minus"} -> <<9, 6>>
      [] token \in {"Star", "Slash", "DoubleSlash", "Percent"} -> <<0, 7>>
      [] token = "Caret" -> <<0, 8>>
      [] token \in {"BangBang", "Bang"} -> <<9, 0>>
      [] token = "Dot" -> <<0, 10>>
      [] OTHER -> <<0, 0>>

get_unary_precedence(token) == get_operator_precedence(token)[1]

get_binary_precedence(token) == get_operator_precedence(token)[2]

\* a table without right-associative operators
never_right_associative(token) == FALSE

is_right_associative(token) == token \in {"Caret", "Equal"}

\* ast::Expr and ast::Statement
new_ident(name) == [kind |-> "Ident", name |-> name]

new_unary_op(operator, rhs) == [kind |-> "UnaryOp", op |-> operator, rhs |-> rhs]

new_binary_op(lhs, operator, rhs) ==
    [kind |-> "BinaryOp", lhs |-> lhs, op |-> operator, rhs |-> rhs]

new_expr(e) == [kind |-> "Expr", expr |-> e]

\* what Parser::expr returned, the stream and the precedence it left behind
SomeExpr(e, stream, prec) ==
    [kind |-> "Some", expr |-> e, stream |-> stream, precedence |-> prec, err |-> ""]

NoExpr(stream, prec) ==
    [kind |-> "None", expr |-> <<>>, stream |-> stream, precedence |-> prec, err |-> ""]

ExprErr(err, stream, prec) ==
    [kind |-> "Err", expr |-> <<>>, stream |-> stream, precedence |-> prec, err |-> err]

\* Parser::next_infix_token takes the next token: it is an infix operator
\* whose precedence is above the parser's current precedence
is_next_infix(stream, prec) ==
    /\ stream # <<>>
    /\ get_binary_precedence(Head(stream)) > 0
    /\ get_binary_precedence(Head(stream)) > prec

\* the precedence at which the right operand of an infix operator is parsed
rhs_precedence(infix_token) ==
    IF is_right_associative(infix_token)
    THEN get_binary_precedence(infix_token) - 1
    ELSE get_binary_precedence(infix_token)

RECURSIVE parse_expr(_, _)
RECURSIVE infix_loop(_, _, _)

\* the infix loop once the right operand of infix_token has been parsed
with_rhs(lhs, infix_token, r) ==
    IF r.kind = "Some"
    THEN infix_loop(new_binary_op(lhs, infix_token, r.expr), r.stream, r.precedence)
    ELSE IF r.kind = "None" THEN ExprErr("ExpectedExpr", r.stream, r.precedence)
    ELSE r

\* the loop at the end of Parser::expr: prec is self.precedence, which the
\* parse of a right operand leaves as it set it
infix_loop(lhs, stream, prec) ==
    IF is_next_infix(stream, prec)
    THEN with_rhs(lhs, Head(stream), parse_expr(Tail(stream), rhs_precedence(Head(stream))))
    ELSE SomeExpr(lhs, stream, prec)

\* a prefix operator once its operand has been parsed: expr returns here
with_operand(token, r) ==
    IF r.kind = "Some"
    THEN SomeExpr(new_unary_op(token, r.expr), r.stream, r.precedence)
    ELSE IF r.kind = "None" THEN ExprErr("ExpectedExpr", r.stream, r.precedence)
    ELSE r

\* a left parenthesis once the expression after it has been parsed
closed(r) ==
    IF r.kind \in {"Err", "Panic"} THEN r
    ELSE IF r.stream = <<>> \/ Head(r.stream) # "RightParen"
    THEN ExprErr("UnclosedExpr", r.stream, r.precedence)
    ELSE IF r.kind = "None"
    THEN [ExprErr("unwrap on None", Tail(r.stream), r.precedence) EXCEPT !.kind = "Panic"]
    ELSE infix_loop(r.expr, Tail(r.stream), r.precedence)

\* Parser::expr
parse_expr(stream, prec) ==
    IF stream = <<>> THEN NoExpr(stream, prec)
    ELSE IF Head(stream) = "EndOfStatement" THEN NoExpr(Tail(stream), prec)
    ELSE IF Head(stream) = "LeftParen" THEN closed(parse_expr(Tail(stream), prec))
    ELSE IF Head(stream) \in Idents
    THEN infix_loop(new_ident(Head(stream)), Tail(stream), prec)
    ELSE IF get_unary_precedence(Head(stream)) = 0
    THEN ExprErr("UnhandledToken", Tail(stream), prec)
    ELSE with_operand(Head(stream), parse_expr(Tail(stream), prec))

\* one round of the loop of Parser::statements: the precedence is reset and
\* an expression is parsed; r is what Parser::expr returned
Statement(r) ==
    /\ token_stream' = r.stream
    /\ precedence' = r.precedence
    /\ parsed' = IF r.kind = "Some" THEN Append(parsed, new_expr(r.expr)) ELSE parsed
    /\ parse_result' = IF r.kind \in {"Err", "Panic"} THEN r.err ELSE ""

ParseStatement ==
    /\ parse_result = ""
    /\ token_stream # <<>>
    /\ \E r \in {parse_expr(token_stream, 0)} : Statement(r)
    /\ UNCHANGED <<vm_vars, scanner_vars, repl_vars, int_vars>>

\* the token stream is at its end: Parser::parse returns the program
ParseEnd ==
    /\ parse_result = ""
    /\ token_stream = <<>>
    /\ parse_result' = "Ok"
    /\ UNCHANGED <<token_stream, precedence, parsed, vm_vars, scanner_vars, repl_vars, int_vars>>

\* the lines handed to the parser: operands joined by binary operators
BinaryOperators == {"Plus", "Minus", "Star", "Caret", "Equal", "And", "EqualEqual"}

UnaryOperators == {"Plus", "Minus", "Bang"}

Joined(ops) ==
    [i \in 1..(2 * Len(ops) + 1) |->
        IF i % 2 = 1 THEN Operands[(i + 1) \div 2] ELSE ops[i \div 2]]

BinaryLines ==
    {Joined(ops) : ops \in UNION {[1..n -> BinaryOperators] : n \in 0..MaxOperators}}

\* the same lines after a prefix operator
UnaryLines == {<<u>> \o l : u \in UnaryOperators, l \in BinaryLines}

OtherLines ==
    {<<"a", "Plus", "Minus", "b">>,
     <<"Minus", "Minus", "a">>,
     <<"Star", "a">>,
     <<"a", "Plus">>,
     <<"LeftParen", "a", "Plus", "b", "RightParen", "Star", "c">>,
     <<"a", "Star", "LeftParen", "b", "Plus", "c", "RightParen">>,
     <<"LeftParen", "a">>,
     <<"LeftParen", "RightParen">>}

\* the tokens a scanner returns for a line
TokenLines ==
    {l \o <<"EndOfStatement", "EndOfInput">> : l \in BinaryLines \cup UnaryLines \cup OtherLines}

\* Iterator::next of the scanner: EndOfInput is the end of the stream
Peekable(toks) ==
    IF toks # <<>> /\ toks[Len(toks)] = "EndOfInput" THEN SubSeq(toks, 1, Len(toks) - 1)
    ELSE toks

\* a scanner that returned toks
ScannerOf(toks) ==
    /\ text = <<>>
    /\ source = <<>>
    /\ queue = <<>>
    /\ indent_level = 0
    /\ inline_scope_stack = <<>>
    /\ bracket_stack = <<>>
    /\ previous_token = "EndOfInput"
    /\ tokens = toks
    /\ scan_err = ""
    /\ scan_err_n = 0
    /\ scan_err_loc = 0
    /\ number = [kind |-> "None"]

ParseInit ==
    /\ VM_new
    /\ incremental = FALSE
    /\ overflow_checks = TRUE
    /\ \E toks \in TokenLines : ScannerOf(toks) /\ Parser_new(Peekable(toks))
    /\ Repl_new
    /\ Int_idle

ParseNext ==
    \/ ParseStatement
    \/ ParseEnd

ParseSpec == ParseInit /\ [][ParseNext]_vars

\* ------------------------------------------------------------------------
\* The REPL (repl.rs).  What execute_text returns for a text is an input of
\* the REPL: Ok with the state of the VM, or an ExeErr with the kind of the
\* scan, parse, compilation or runtime error.

\* evaluations of code one session of the model makes
MaxEvals == 2

\* lines one continuation of the model accumulates
MaxInput == 4

VMStateOk(state, code) == [ok |-> TRUE, src |-> "", kind |-> state, code |-> code]

ExeErr(src, kind) == [ok |-> FALSE, src |-> src, kind |-> kind, code |-> 0]

ScanErrKinds ==
    {"UnexpectedChar", "UnmatchedOpeningBracket", "UnmatchedClosingBracket",
     "UnterminatedStr", "InvalidIndent", "ExpectedBlock", "ExpectedIndentedBlock",
     "UnexpectedIndent", "WhitespaceAfterIndent", "UnexpectedWhitespace", "FormatStrErr",
     "ParseIntErr", "ParseFloatErr"}

ParseErrKinds ==
    {"UnexpectedToken", "ExpectedBlock", "ExpectedToken", "ExpectedExpr", "ExpectedIdent",
     "UnexpectedBreak", "UnexpectedContinue", "SyntaxErr", "UnclosedExpr"}

CompErrKinds ==
    {"UnhandledExpr", "LabelNotFoundInScope", "CannotJumpOutOfFunc",
     "DuplicateLabelInScope", "ExpectedIdent", "CannotAssignSpecialIdent"}

RuntimeErrKinds ==
    {"NameErr", "TypeErr", "AttrDoesNotExist", "NotCallable", "EmptyStack",
     "NotEnoughValuesOnStack"}

\* Executor::execute_source: what it may return
ExeResults ==
    {VMStateOk("Idle", 0), VMStateOk("Halted", 0), VMStateOk("Halted", 1)}
      \cup {ExeErr("ScanErr", k) : k \in ScanErrKinds}
      \cup {ExeErr("ParseErr", k) : k \in ParseErrKinds}
      \cup {ExeErr("CompErr", k) : k \in CompErrKinds}
      \cup {ExeErr("RuntimeErr", k) : k \in RuntimeErrKinds}

\* Executor::ignore_scan_err, ignore_parse_err, ignore_comp_err
ignore_scan_err(kind) ==
    /\ incremental
    /\ kind \in {"ExpectedBlock", "ExpectedIndentedBlock", "UnmatchedOpeningBracket",
                 "UnterminatedStr"}

ignore_parse_err(kind) == incremental /\ kind = "ExpectedBlock"

ignore_comp_err(kind) == incremental /\ kind = "LabelNotFoundInScope"

\* Executor::execute_source and execute_chunk print no diagnostic for err
ignore_err(err) ==
    CASE err.src = "ScanErr" -> ignore_scan_err(err.kind)
      [] err.src = "ParseErr" -> ignore_parse_err(err.kind)
      [] err.src = "CompErr" -> ignore_comp_err(err.kind)
      [] OTHER -> FALSE

\* a REPL that continues on the continuable scan errors only
continue_on_scan_err(err) ==
    /\ err.src = "ScanErr"
    /\ err.kind \in {"ExpectedBlock", "ExpectedIndentedBlock", "UnmatchedOpeningBracket",
                     "UnterminatedStr"}

\* Repl::continue_on_err
continue_on_err(err) ==
    IF err.src = "ScanErr"
    THEN err.kind \in {"ExpectedBlock", "ExpectedIndentedBlock", "UnmatchedOpeningBracket",
                       "UnterminatedStr"}
    ELSE IF err.src = "ParseErr" THEN err.kind = "ExpectedBlock"
    ELSE FALSE

\* Repl::eval(input, no_cont) from the return of execute_text on: the exit
\* result of the state of the VM, or the error and whether to go on reading
eval(input, no_cont, r) ==
    /\ exe_result' = r
    /\ diagnostic' = (~r.ok /\ ~ignore_err(r))
    /\ evaluated' = input
    /\ no_continue' = no_cont
    /\ evals' = evals + 1
    /\ blank_line_count' = 0
    /\ IF r.ok
       THEN /\ repl_input' = <<>>
            /\ IF r.kind = "Halted" /\ r.code # 0
               THEN prompt' = "exited" /\ exit_result' = "Err"
               ELSE prompt' = "primary" /\ UNCHANGED exit_result
       ELSE IF ~no_cont /\ continue_on_err(r)
       THEN /\ prompt' = "continuation"
            /\ repl_input' = input
            /\ UNCHANGED exit_result
       ELSE /\ prompt' = "primary"
            /\ repl_input' = <<>>
            /\ UNCHANGED exit_result

\* the lines read at a prompt: a blank line, code
ReplLines == {"", "x"}

\* a line of code is read at the primary prompt and evaluated
ReplEval ==
    /\ prompt = "primary"
    /\ evals < MaxEvals
    /\ \E line \in ReplLines \ {""}, r \in ExeResults : eval(<<line>>, FALSE, r)
    /\ UNCHANGED <<vm_vars, scanner_vars, parser_vars, int_vars>>

\* a line is read at the `+` prompt: the input grows, and it is evaluated
\* when the line comes after a blank line
ReplContinue ==
    /\ prompt = "continuation"
    /\ Len(repl_input) < MaxInput
    /\ \E new_input \in ReplLines :
         IF blank_line_count > 0
         THEN \E r \in ExeResults : eval(Append(repl_input, new_input), TRUE, r)
         ELSE /\ repl_input' = Append(repl_input, new_input)
              /\ blank_line_count' = IF new_input = "" THEN blank_line_count + 1 ELSE 0
              /\ UNCHANGED <<prompt, exe_result, no_continue, exit_result, evals, diagnostic,
                             evaluated>>
    /\ UNCHANGED <<vm_vars, scanner_vars, parser_vars, int_vars>>

\* .exit or .quit, or the end of the input at either prompt
ReplExit ==
    /\ prompt # "exited"
    /\ prompt' = "exited"
    /\ exit_result' = IF prompt = "continuation" THEN "Err" ELSE "Ok"
    /\ UNCHANGED <<repl_input, blank_line_count, exe_result, no_continue, evals, diagnostic,
                 evaluated>>
    /\ UNCHANGED <<vm_vars, scanner_vars, parser_vars, int_vars>>

ReplInit ==
    /\ VM_new
    /\ incremental = TRUE
    /\ overflow_checks = TRUE
    /\ Scanner_new(<<>>)
    /\ Parser_new(<<>>)
    /\ Repl_new
    /\ Int_idle

ReplNext ==
    \/ ReplEval
    \/ ReplContinue
    \/ ReplExit

ReplSpec == ReplInit /\ [][ReplNext]_vars

\* ------------------------------------------------------------------------
\* The operations of Int (types/int.rs) with an Int, a Float or another
\* object on the right

\* the largest magnitude of the operands of the model
MaxInt == 4

\* an f64 is the fraction v / den with den > 0; den = 0 stands for the
\* infinities (v = 1, v = -1) and for NaN (v = 0)
FloatObj(v, den) == [t |-> "Float", v |-> v, den |-> den]

Sign(n) == IF n > 0 THEN 1 ELSE IF n < 0 THEN 0 - 1 ELSE 0

Abs(n) == IF n < 0 THEN 0 - n ELSE n

\* the denominator of the value of an Int or a Float
Den(obj) == IF obj.t = "Float" THEN obj.den ELSE 1

\* n / d rounded toward zero, d # 0
TruncDiv(n, d) == Sign(n) * Sign(d) * (Abs(n) \div Abs(d))

\* base ^ exp of BigInt, exp >= 0
Power(base, exp) == IF exp = 0 THEN 1 ELSE base ^ exp

\* what a method of Int returns, or that it panicked
Returned(obj) == [kind |-> "Ok", obj |-> obj]

TypeErr == [kind |-> "TypeErr", obj |-> NilObj]

Panicked == [kind |-> "Panic", obj |-> NilObj]

\* lhs / rhs of f64, lhs = ln / ld and rhs = rn / rd both finite
f64_div(ln, ld, rn, rd) ==
    IF rn = 0 THEN FloatObj(Sign(ln), 0)
    ELSE FloatObj(ln * rd * Sign(rn), ld * Abs(rn))

\* lhs % rhs of f64: the remainder has the sign of lhs
f64_rem(ln, ld, rn, rd) ==
    IF rn = 0 THEN FloatObj(0, 0)
    ELSE FloatObj(ln * rd - rn * ld * TruncDiv(ln * rd, rn * ld), ld * rd)

\* Int::div_f64
div_f64(self, rhs) ==
    IF rhs.t \in {"Int", "Float"} THEN Returned(f64_div(self.v, 1, rhs.v, Den(rhs)))
    ELSE TypeErr

\* Int::div
div(self, rhs) == div_f64(self, rhs)

\* BigInt::from_f64(value).unwrap() and new_int: from_f64 rounds toward zero
\* and is None for an infinity and for NaN
int_from_f64(value) ==
    IF value.den = 0 THEN Panicked
    ELSE Returned(IntObj(TruncDiv(value.v, value.den)))

\* Int::floor_div, q being what div_f64 returned
floored(q) == IF q.kind = "Ok" THEN int_from_f64(q.obj) ELSE q

floor_div(self, rhs) == floored(div_f64(self, rhs))

\* Int::pow: the exponent is rhs.value().to_u32().unwrap(); with a Float on
\* the right, powf of f64 (here for exponents that are whole numbers)
pow(self, rhs) ==
    IF rhs.t = "Int"
    THEN IF rhs.v < 0 THEN Panicked ELSE Returned(IntObj(Power(self.v, rhs.v)))
    ELSE IF rhs.t = "Float"
    THEN IF rhs.v >= 0 THEN Returned(FloatObj(Power(self.v, rhs.v \div rhs.den), 1))
         ELSE IF self.v = 0 THEN Returned(FloatObj(1, 0))
         ELSE Returned(FloatObj(Sign(Power(self.v, Abs(rhs.v) \div rhs.den)),
                                Abs(Power(self.v, Abs(rhs.v) \div rhs.den))))
    ELSE TypeErr

\* make_op!: modulo, mul, add, sub.  `%` of BigInt panics on a zero divisor
\* and its remainder has the sign of the dividend.
make_op(op, self, rhs) ==
    IF rhs.t = "Int"
    THEN CASE op = "add" -> Returned(IntObj(self.v + rhs.v))
           [] op = "sub" -> Returned(IntObj(self.v - rhs.v))
           [] op = "mul" -> Returned(IntObj(self.v * rhs.v))
           [] op = "modulo" ->
                IF rhs.v = 0 THEN Panicked
                ELSE Returned(IntObj(self.v - rhs.v * TruncDiv(self.v, rhs.v)))
    ELSE IF rhs.t = "Float"
    THEN CASE op = "add" -> Returned(FloatObj(self.v * rhs.den + rhs.v, rhs.den))
           [] op = "sub" -> Returned(FloatObj(self.v * rhs.den - rhs.v, rhs.den))
           [] op = "mul" -> Returned(FloatObj(self.v * rhs.v, rhs.den))
           [] op = "modulo" -> Returned(f64_rem(self.v, 1, rhs.v, rhs.den))
    ELSE TypeErr

\* the method of Int that op names
int_op(op, self, rhs) ==
    CASE op = "div" -> div(self, rhs)
      [] op = "floor_div" -> floor_div(self, rhs)
      [] op = "pow" -> pow(self, rhs)
      [] OTHER -> make_op(op, self, rhs)

IntOps == {"add", "sub", "mul", "modulo", "pow", "div", "floor_div"}

Ints == {IntObj(n) : n \in (0 - MaxInt)..MaxInt}

\* the Floats of the model: the halves; powf is given whole numbers only
Floats == {FloatObj(n, 2) : n \in (0 - MaxInt)..MaxInt}

OtherObjs == {NilObj, TrueObj, Obj("Str", 0)}

Operations ==
    {[op |-> o, self |-> a, rhs |-> b] :
        o \in IntOps, a \in Ints, b \in Ints \cup Floats \cup OtherObjs}
      \ {x \in [op : {"pow"}, self : Ints, rhs : Floats] : x.rhs.v % 2 # 0}

\* the VM calls the method on self with rhs
CallIntOp ==
    /\ outcome.kind = "None"
    /\ operation.op \in IntOps
    /\ outcome' = int_op(operation.op, operation.self, operation.rhs)
    /\ UNCHANGED <<operation, vm_vars, scanner_vars, parser_vars, repl_vars>>

IntInit ==
    /\ VM_new
    /\ incremental = FALSE
    /\ overflow_checks = TRUE
    /\ Scanner_new(<<>>)
    /\ Parser_new(<<>>)
    /\ Repl_new
    /\ operation \in Operations
    /\ outcome = [kind |-> "None", obj |-> NilObj]

IntNext == CallIntOp

IntSpec == IntInit /\ [][IntNext]_vars

\* ------------------------------------------------------------------------
\* Properties

\* the outermost VM::execute has returned Ok
ReturnedOk == result.kind \in {"Idle", "Halted"}

\* the object on top of the value stack
TopObj == get_obj(Peek(value_stack), consts, ns_stack)

\* C1: if VM.execute returns a RuntimeErr, the scope stack and the namespace
\* stack have the sizes they had immediately before the call.
C1_ErrLeavesScopesAsBefore ==
    result.kind = "Err" =>
        /\ Len(scope_stack) = pre.scope
        /\ Len(ns_stack) = pre.ns

\* C2: for any chunk, when VM.execute returns Ok (Idle or Halted) the scope
\* stack holds as many entries as immediately before the call.
C2_OkLeavesScopeStackAsBefore ==
    ReturnedOk => Len(scope_stack) = pre.scope

\* the value a block's statements left: the top of the value stack when the
\* stack has grown since the block's ScopeStart, nil when it has not
BlockValue ==
    IF Len(value_stack) > Len(Peek(Top.open)) /\ TopObj.ok THEN TopObj.obj ELSE NilObj

\* C3: after a block's ScopeEnd the value stack is what it was at the block's
\* ScopeStart plus one Temp holding the value of the block's last statement,
\* or nil when the statements left no value; the block's namespace is gone.
C3_BlockIsExpression ==
    [][(comp.compiled /\ Fetch("ScopeEnd") /\ Top.open # <<>> /\ steps' = steps + 1)
         => /\ value_stack' = Append(Peek(Top.open), Temp(BlockValue))
            /\ ns_stack' = Pop(ns_stack)]_vars

\* the instruction about to run in the innermost execute
AtInst(ops) ==
    /\ result.kind = "Running"
    /\ Top.ip < Len(CurChunk)
    /\ CurInst.op \in ops

\* C4 (as claimed): in every compiled chunk, whenever a Return, Halt or
\* HaltTop is reached every ScopeStart executed in that chunk has been
\* matched by a scope exit.
C4_AllScopesMatchedAtExit ==
    (comp.compiled /\ AtInst({"Return", "Halt", "HaltTop"})) => Top.open = <<>>

\* C4 (amended): at a Halt or HaltTop, and at the Return of the module
\* chunk, every ScopeStart of the chunk has been matched; at the Return of a
\* function chunk exactly the function's own scope is open, and the
\* instruction after the Return is the ScopeEnd that closes it and ends
\* the chunk.
C4_ScopesMatchedButFuncScope ==
    /\ (comp.compiled /\ AtInst({"Halt", "HaltTop"})) => Top.open = <<>>
    /\ (comp.compiled /\ AtInst({"Return"}) /\ Top.fid = 0) => Top.open = <<>>
    /\ (comp.compiled /\ AtInst({"Return"}) /\ Top.fid # 0) =>
          /\ Len(Top.open) = 1
          /\ Top.ip + 2 = Len(CurChunk)
          /\ At(CurChunk, Top.ip + 1) = ScopeEnd

\* C4 witness: a called function is at its Return with its own scope open,
\* after a block inside it was entered and left
C4_FuncAtReturn ==
    /\ comp.compiled
    /\ AtInst({"Return"})
    /\ Top.fid # 0
    /\ Len(Top.open) = 1
    /\ \E i \in 1..Top.ip : At(CurChunk, i).op = "ScopeStart"

\* the chunks a successful compilation has produced: the module chunk and
\* the chunks of the functions, each with the log of its visitor
Compiled ==
    {[chunk |-> chunk, log |-> comp.log]}
    \cup {[chunk |-> funcs[i].chunk, log |-> funcs[i].log] : i \in 1..Len(funcs)}

JumpOps == {"Jump", "JumpIf", "JumpIfNot", "JumpIfElse"}

\* every address operand of the jump instruction is an index into ch
AddrsValid(ch, inst) ==
    /\ inst.a < Len(ch)
    /\ inst.op = "JumpIfElse" => inst.b < Len(ch)

\* C5: in every chunk of a successful compilation, every address operand of
\* a Jump, JumpIf, JumpIfNot or JumpIfElse is strictly less than the chunk's
\* final length.
C5_JumpAddrsValid ==
    comp.compiled =>
        \A c \in Compiled : \A i \in 1..Len(c.chunk) :
            c.chunk[i].op \in JumpOps => AddrsValid(c.chunk, c.chunk[i])

\* C5 witness: a compiled module chunk with a jump from fix_jumps that exits
\* a scope, a loop's jumps and a conditional's JumpIfElse
C5_JumpsOfEveryOrigin ==
    /\ comp.compiled
    /\ \E i \in 1..Len(chunk) : chunk[i].op = "Jump" /\ chunk[i].c > 0
    /\ \E i \in 1..Len(chunk) : chunk[i].op = "JumpIfElse"
    /\ \E i \in 1..Len(comp.log) : comp.log[i].what = "loop"

\* the jumps and labels of an AST, each with its name and whether it is
\* inside a function body
RECURSIVE expr_marks(_, _)
RECURSIVE stmts_marks(_, _)

stmt_marks(st, in_func) ==
    CASE st.sk = "Jump" -> {[what |-> "jump", name |-> st.name, in_func |-> in_func]}
      [] st.sk = "Label" -> {[what |-> "label", name |-> st.name, in_func |-> in_func]}
                            \cup expr_marks(st.expr, in_func)
      [] st.sk = "Break" -> expr_marks(st.expr, in_func)
      [] st.sk = "Continue" -> {}
      [] st.sk = "Expr" -> expr_marks(st.expr, in_func)

stmts_marks(statements, in_func) ==
    UNION {stmt_marks(statements[i], in_func) : i \in 1..Len(statements)}

expr_marks(e, in_func) ==
    CASE e.k = "Block" -> stmts_marks(e.statements, in_func)
      [] e.k = "Conditional" ->
           UNION {expr_marks(e.branches[i][1], in_func)
                  \cup stmts_marks(e.branches[i][2], in_func) : i \in 1..Len(e.branches)}
           \cup stmts_marks(e.default, in_func)
      [] e.k = "Loop" -> expr_marks(e.expr, in_func) \cup stmts_marks(e.statements, in_func)
      [] e.k = "Func" -> stmts_marks(e.statements, TRUE)
      [] e.k = "Call" ->
           expr_marks(e.callable, in_func)
           \cup UNION {expr_marks(e.args[i], in_func) : i \in 1..Len(e.args)}
      [] e.k = "UnaryOp" -> expr_marks(e.a, in_func)
      [] e.k = "BinaryOp" -> expr_marks(e.a, in_func) \cup expr_marks(e.b, in_func)
      [] OTHER -> {}

\* the executor was handed source
FromSource == program.source

Marks == IF FromSource THEN stmts_marks(program.statements, FALSE) ELSE {}
JumpMarks == {m \in Marks : m.what = "jump"}
LabelMarks == {m \in Marks : m.what = "label"}

\* C6: an unresolved jump is classified by where the search failed.  When no
\* label is defined anywhere the jumps yield LabelNotFoundInScope; when every
\* jump is inside a function body and its label is defined only outside
\* every function, the jumps yield CannotJumpOutOfFunc.
C6_UnresolvedJumpClassified ==
    /\ (JumpMarks # {} /\ LabelMarks = {}) => comp.err = "LabelNotFoundInScope"
    /\ (/\ JumpMarks # {}
        /\ \A j \in JumpMarks : j.in_func
        /\ \A l \in LabelMarks : ~l.in_func
        /\ \A j \in JumpMarks : \E l \in LabelMarks : l.name = j.name)
       => comp.err = "CannotJumpOutOfFunc"

\* the entries of a visitor's log
LogOf(c, what) == {c.log[i] : i \in {j \in 1..Len(c.log) : c.log[j].what = what}}

\* the loop's instruction range holds the address
InLoop(l, addr) == l.addr <= addr /\ addr < l.after

\* the innermost loop of the chunk around the address
IsInnermost(c, l, addr) ==
    /\ InLoop(l, addr)
    /\ \A m \in LogOf(c, "loop") : InLoop(m, addr) => (m.addr <= l.addr /\ l.after <= m.after)

\* C7: after a loop has been compiled no BreakPlaceholder or
\* ContinuePlaceholder remains in its instruction range; a break has become
\* Jump(after_addr, d) and a continue Jump(loop_addr, d) of the innermost
\* loop around it, d being the scope depth at the statement minus the scope
\* depth at that loop.
C7_LoopPlaceholdersPatched ==
    comp.compiled =>
        \A c \in Compiled : \A l \in LogOf(c, "loop") :
            /\ \A a \in l.addr..(l.after - 1) :
                 At(c.chunk, a).op \notin {"BreakPlaceholder", "ContinuePlaceholder"}
            /\ \A b \in LogOf(c, "break") :
                 IsInnermost(c, l, b.addr) =>
                     At(c.chunk, b.addr) = Jump(l.after, b.depth - l.depth)
            /\ \A b \in LogOf(c, "continue") :
                 IsInnermost(c, l, b.addr) =>
                     At(c.chunk, b.addr) = Jump(l.addr, b.depth - l.depth)

\* C7 witness: a loop nested in a loop, the inner one with a break and a
\* continue
C7_NestedLoopWithBreak ==
    /\ comp.compiled
    /\ \E l \in LogOf([log |-> comp.log], "loop") :
         \E m \in LogOf([log |-> comp.log], "loop") :
           /\ m # l
           /\ InLoop(m, l.addr)
           /\ \E b \in LogOf([log |-> comp.log], "break") : InLoop(l, b.addr)
           /\ \E b \in LogOf([log |-> comp.log], "continue") : InLoop(l, b.addr)

\* the statement assigns a function to $main
AssignsMain(st) ==
    /\ st.sk = "Expr"
    /\ st.expr.k = "BinaryOp"
    /\ st.expr.op = "Assign"
    /\ st.expr.a = SpecialIdent("$main")
    /\ st.expr.b.k = "Func"

\* the chunk ends with the call of $main
EndsWithMainCall(ch) ==
    /\ Len(ch) >= 6
    /\ ch[Len(ch) - 5] = LoadVar("$main")
    /\ ch[Len(ch) - 4].op = "LoadConst"
    /\ consts[ch[Len(ch) - 4].a + 1].t = "Int"
    /\ ch[Len(ch) - 3].op = "LoadConst"
    /\ consts[ch[Len(ch) - 3].a + 1].t = "Int"
    /\ ch[Len(ch) - 2] = Call(2)
    /\ ch[Len(ch) - 1] = Return
    /\ ch[Len(ch)] = HaltTop

\* C8: if a statement at module scope assigns a function to $main, whatever
\* the other statements, the module chunk ends with LoadVar "$main", two
\* LoadConst of integers, Call 2, Return, HaltTop; if none does it ends with
\* Halt 0.
C8_MainCallEmitted ==
    comp.compiled =>
        IF \E i \in 1..Len(program.statements) : AssignsMain(program.statements[i])
        THEN EndsWithMainCall(chunk)
        ELSE chunk[Len(chunk)] = Halt(0)

LoopSteps == 3 + 3 * (4 + 6) + 4 + 2

\* C10: executing the compiled `x = 0; loop x < 3 -> (x += 1); x` terminates;
\* x is only ever the module-level variable, the exit JumpIfNot is taken
\* exactly when x has reached 3, the body has run three times (each run
\* leaves its value, 1, 2 and 3, on the value stack) and the top of the
\* value stack at the end is Int 3.
C10_LoopCountsToThree ==
    program = Source(P_loop3) =>
        /\ result.kind \in {"Running", "Halted"}
        /\ result.kind = "Running" => steps < LoopSteps
        /\ \A d \in 2..Len(ns_stack) : ns_stack[d]["x"] = Undeclared
        /\ AtInst({"JumpIfNot"}) =>
              TopObj = Ok(bool_obj_from_bool(ns_stack[1]["x"].v < 3))
        /\ result.kind = "Halted" =>
              /\ result.code = 0
              /\ steps = LoopSteps
              /\ ns_stack[1]["x"] = IntObj(3)
              /\ value_stack = <<Var(0, "x"), Temp(IntObj(1)), Temp(IntObj(2)),
                                 Temp(IntObj(3)), Var(0, "x")>>
              /\ TopObj = Ok(IntObj(3))

\* C10 witness: the loop has ended and x is 3
C10_LoopEnded ==
    /\ program = Source(P_loop3)
    /\ result.kind = "Halted"
    /\ TopObj = Ok(IntObj(3))
    /\ Len(value_stack) = 5

\* programs of one `jump L`, a statement that fails when run, and `L: expr`,
\* all in one scope
ForwardJumps == {P_jump, P_jump_in_block}

\* the addresses of the Jump instructions of the module chunk
JumpAddrs == {a \in 0..(Len(chunk) - 1) : At(chunk, a).op = "Jump"}

\* the value of the label's expression in a program of ForwardJumps
LabelValue == IF program = Source(P_jump) THEN NilObj ELSE IntObj(2)

\* C11: a forward `jump L` with L defined later in the same scope is patched
\* to Jump(address of L's expression, 0); executing it goes straight to L's
\* expression, no instruction between the jump and the label is ever
\* executed, and the program ends with the value of the label's expression
\* on top of the value stack.
C11_ForwardJumpSkipsToLabel ==
    (FromSource /\ program.statements \in ForwardJumps /\ comp.compiled) =>
        /\ result.kind \in {"Running", "Halted"}
        /\ \A j \in JumpAddrs :
             /\ At(chunk, j).a = j + 4
             /\ At(chunk, j).c = 0
             /\ At(chunk, j + 4).op = "LoadConst"
             /\ consts[At(chunk, j + 4).a + 1] = LabelValue
             /\ result.kind = "Running" => (Top.ip <= j \/ Top.ip >= j + 4)
        /\ Cardinality(JumpAddrs) = 1
        /\ result.kind = "Halted" =>
              /\ result.code = 0
              /\ value_stack # <<>>
              /\ TopObj = Ok(LabelValue)

\* C11 witness: the jump inside the block has been taken and the program has
\* ended with the label's value
C11_JumpTaken ==
    /\ program = Source(P_jump_in_block)
    /\ result.kind = "Halted"
    /\ value_stack = <<Temp(IntObj(2))>>

\* handle_call returns Ok: the nested execute has ended and exit_scopes(1)
\* has not panicked
CallReturns ==
    /\ result.kind = "Running"
    /\ Len(frames) > 1
    /\ Top.ip = Len(CurChunk)
    /\ Len(frames') = Len(frames) - 1

\* C12: a successful Call(n) of a user function of n parameters leaves one
\* Temp in the place of the callable and its n arguments, so the value stack
\* is n entries shorter than before the call; the scope stack and the
\* namespace stack have the sizes they had before the call.
C12_CallLeavesOneTemp ==
    [][CallReturns =>
         /\ Len(value_stack') = Len(Top.at_call[1].vs) - Top.at_call[1].n
         /\ Pop(value_stack') = SubSeq(Top.at_call[1].vs, 1, Len(value_stack') - 1)
         /\ Peek(value_stack').k = "Temp"
         /\ Len(scope_stack') = Top.at_call[1].scope
         /\ Len(ns_stack') = Top.at_call[1].ns]_vars


\* HaltTop is about to run in the outermost execute with an object on top of
\* the value stack, and runs
HaltTopRuns ==
    /\ Fetch("HaltTop")
    /\ Len(frames) = 1
    /\ value_stack # <<>>
    /\ TopObj.ok
    /\ steps' = steps + 1

\* C13 (as claimed): HaltTop pops the top of the value stack; for an Int v
\* execute returns Halted(v mod 256), for every integer v; for an object that
\* is not an Int it returns Halted(0).
C13_HaltTopTruncates ==
    [][HaltTopRuns =>
         /\ value_stack' = Pop(value_stack)
         /\ result' = Res("Halted", IF TopObj.obj.t = "Int" THEN TopObj.obj.v % 256 ELSE 0,
                          "")]_vars

\* C13 (amended): HaltTop pops the top of the value stack; for an Int v in
\* 0..255 execute returns Halted(v), for any other Int it returns
\* Halted(255); for an object that is not an Int it returns Halted(0).
C13_HaltTopSaturates ==
    [][HaltTopRuns =>
         /\ value_stack' = Pop(value_stack)
         /\ result' = Res("Halted",
                          IF TopObj.obj.t # "Int" THEN 0
                          ELSE IF TopObj.obj.v \in 0..255 THEN TopObj.obj.v
                          ELSE 255,
                          "")]_vars

\* C13 witness: HaltTop has popped an Int above 255 and execute has returned
C13_HaltTopOutOfRange ==
    /\ ~FromSource
    /\ program.code = <<LoadConst(3), HaltTop>>
    /\ consts[4].v > 255
    /\ result.kind = "Halted"
    /\ value_stack = <<>>

\* the outermost execute has ended with its instruction pointer at the
\* chunk's length: the chunk is empty, or the last instruction run was the
\* last of the chunk or a jump to the chunk's length
PastTheEnd ==
    /\ runs > 0
    /\ result.kind \notin {"Running", "CompErr"}
    /\ \/ chunk = <<>>
       \/ Len(frames) = 1 /\ frames[1].ip = Len(chunk)

\* C14: for every chunk, the empty chunk included, when the instruction
\* pointer moves past the last instruction with no Halt, HaltTop or
\* placeholder executed, execute returns Ok(VMState::Idle).
C14_PastTheEndIsIdle == PastTheEnd => result.kind = "Idle"

\* the outermost execute has returned from a Halt instruction
HaltedByHalt ==
    /\ result.kind = "Halted"
    /\ Len(frames) = 1
    /\ At(chunk, frames[1].ip).op = "Halt"

\* C15: when execute encounters Halt(code) it returns VMState::Halted(code)
\* and the VM's state is cleared: the value stack and the scope stack are
\* empty.
C15_HaltClearsState ==
    HaltedByHalt =>
        /\ result.code = At(chunk, frames[1].ip).a
        /\ value_stack = <<>>
        /\ scope_stack = <<>>

\* the innermost execute has just run DeclareVar n; AssignVar n; LoadVar n,
\* the value on top before them put there by the instruction at ip - 4
AfterDeclareAssignLoad(n) ==
    /\ result.kind \in {"Running", "Idle"}
    /\ frames # <<>>
    /\ Top.ip >= 4
    /\ At(CurChunk, Top.ip - 3) = DeclareVar(n)
    /\ At(CurChunk, Top.ip - 2) = AssignVar(n)
    /\ At(CurChunk, Top.ip - 1) = LoadVar(n)

\* the value the instruction at ip - 4 put on top
LoadedValue ==
    IF At(CurChunk, Top.ip - 4).op = "LoadConst"
    THEN Ok(consts[At(CurChunk, Top.ip - 4).a + 1])
    ELSE get_obj(Var(get_var_depth(ns_stack, At(CurChunk, Top.ip - 4).s),
                     At(CurChunk, Top.ip - 4).s), consts, ns_stack)

\* C16: whatever the namespaces held before (x undeclared, x declared in the
\* current namespace, x declared only in outer namespaces), DeclareVar x;
\* AssignVar x; LoadVar x with a value v on top of the value stack runs
\* without error and leaves on top a Var entry for x, in the current
\* namespace, that resolves to v.
C16_DeclareAssignLoad ==
    /\ program \in DeclChunks => result.kind \in {"Running", "Idle"}
    /\ \A n \in Names :
         AfterDeclareAssignLoad(n) =>
             /\ Peek(value_stack) = Var(Len(ns_stack) - 1, n)
             /\ TopObj = LoadedValue

\* C16 witness: the three instructions have run with x declared only in the
\* outer namespace, where it keeps its value
C16_ShadowedOuter ==
    /\ AfterDeclareAssignLoad("x")
    /\ Len(ns_stack) = 2
    /\ ns_stack[1]["x"] = FalseObj
    /\ ns_stack[2]["x"] = TrueObj

\* C17: the constants pool is append-only.  Whatever compiles (nested
\* functions, REPL increments, compilations that fail) and whatever is
\* executed, every index handed out before resolves to the object that was
\* stored there, and indices 0, 1, 2 resolve to nil, true, false.
C17_PoolAppendOnly ==
    [][/\ Len(consts') >= Len(consts)
       /\ SubSeq(consts', 1, Len(consts)) = consts
       /\ Len(consts') >= 3
       /\ SubSeq(consts', 1, 3) = <<NilObj, TrueObj, FalseObj>>]_vars

\* C17 witness: in one session a compilation failed after it had added the
\* constant 4, and the next one added a function and the constant in it
C17_PoolGrewAcrossCompiles ==
    /\ incremental
    /\ runs = 2
    /\ comp.compiled
    /\ Len(consts) = 6
    /\ consts[4] = IntObj(4)
    /\ consts[6].t = "Func"

\* programs with an expression that is an Ellipsis literal
EllipsisPrograms == {P_ellipsis, P_assign_ellipsis}

\* C18: compiling an expression that is an Ellipsis literal fails with the
\* compile error UnhandledExpr; it never succeeds.
C18_EllipsisIsUnhandled ==
    (FromSource /\ program.statements \in EllipsisPrograms) =>
        /\ ~comp.compiled
        /\ comp.err = "UnhandledExpr"

\* ------------------------------------------------------------------------
\* Indentation

\* the scanner is about to read a `->` that ends its line
ArrowEndsLine ==
    /\ AddTokens
    /\ source # <<>>
    /\ Head(source) = "->"
    /\ after_arrow(source) # <<>>
    /\ Head(after_arrow(source)) = "\n"

\* the next code line after a `->` that ends its line
AfterArrowLine == get_next_indent_level(Tail(after_arrow(source)))

\* the scanner is about to read a newline outside brackets
AtNewline ==
    /\ AddTokens
    /\ source # <<>>
    /\ Head(source) = "\n"
    /\ bracket_stack = <<>>

\* the next code line after that newline
NextLine == get_next_indent_level(Tail(source))

\* the scanner is at the end of the input with no bracket open
AtEnd ==
    /\ AddTokens
    /\ source = <<>>
    /\ bracket_stack = <<>>

\* C19: indent_level rises only on the step that reads a `->` ending a line,
\* and then by exactly one; after such a `->` a next code line at the same or
\* a lower level gives ExpectedIndentedBlock and one two or more levels
\* deeper gives UnexpectedIndent; a line deeper than indent_level after a
\* newline outside brackets gives UnexpectedIndent.
C19_IndentOnlyAfterArrow ==
    [][/\ indent_level' > indent_level =>
            ArrowEndsLine /\ indent_level' = indent_level + 1
       /\ (ArrowEndsLine /\ AfterArrowLine.err = "") =>
            /\ AfterArrowLine.level <= indent_level =>
                 scan_err' = "ExpectedIndentedBlock" /\ indent_level' = indent_level
            /\ AfterArrowLine.level >= indent_level + 2 =>
                 scan_err' = "UnexpectedIndent" /\ indent_level' = indent_level
            /\ AfterArrowLine.level = indent_level + 1 =>
                 scan_err' = "" /\ indent_level' = indent_level + 1
       /\ (AtNewline /\ NextLine.err = "" /\ NextLine.level > indent_level) =>
            scan_err' = "UnexpectedIndent" /\ indent_level' = indent_level
      ]_vars

\* C19 (witness): a block was opened by `->` and a newline, the level rose to
\* one, and a later line two levels deep that follows a statement was refused.
C19_DeeperLineRefused ==
    /\ indent_level = 1
    /\ scan_err = "UnexpectedIndent"
    /\ previous_token = "Ident"
    /\ \E i \in 1..Len(tokens) : tokens[i] = "ScopeStart"

Pairs(k) == [i \in 1..(2 * k) |-> IF i % 2 = 1 THEN "ScopeEnd" ELSE "EndOfStatement"]

\* the step queues k pairs and then last, after an EndOfStatement and with
\* nothing of the next line among them, and the level becomes level
Dedented(k, level, last) ==
    /\ Len(queue') >= 2 * k + Len(last)
    /\ SubSeq(queue', Len(queue') - 2 * k - Len(last) + 1, Len(queue')) = Pairs(k) \o last
    /\ \A i \in 1..(Len(queue') - 2 * k - Len(last)) :
          queue'[i] \in {"InlineScopeEnd", "EndOfStatement"}
    /\ Peek(tokens \o SubSeq(queue', 1, Len(queue') - 2 * k - Len(last))) = "EndOfStatement"
    /\ indent_level' = level
    /\ scan_err' = ""

\* C20: at a newline outside brackets, or at the end of the input, with the
\* next code line k >= 1 levels below indent_level, the scanner queues exactly
\* k (ScopeEnd, EndOfStatement) pairs, after the EndOfStatement of the
\* statement before and before any token of the next line, and indent_level
\* becomes the level of that line.
C20_DedentEmitsPairs ==
    [][/\ (AtNewline /\ NextLine.err = "" /\ NextLine.level < indent_level) =>
            /\ Dedented(indent_level - NextLine.level, NextLine.level, <<>>)
            /\ source' = NextLine.rest
       /\ (AtEnd /\ indent_level > 0) => Dedented(indent_level, 0, <<"EndOfInput">>)
      ]_vars

\* C20 (witness): a newline step dropped two levels to a code line at level
\* zero, and the first token it queued has been returned.
C20_DroppedTwoLevels ==
    /\ queue = <<"ScopeEnd", "EndOfStatement", "ScopeEnd", "EndOfStatement">>
    /\ previous_token = "EndOfStatement"
    /\ indent_level = 0
    /\ source # <<>>
    /\ scan_err = ""

\* the scanner is about to pass the newline before a line that begins
\* outside brackets
LineStart == AtNewline \/ (ArrowEndsLine /\ bracket_stack = <<>>)

\* the input after that newline
LineSource == IF AtNewline THEN Tail(source) ELSE Tail(after_arrow(source))

\* the first line of src that is neither blank nor a comment, from its first
\* character; empty when there is none
RECURSIVE CodeLine(_)
CodeLine(src) ==
    IF Drop(src, Leading(src, Blank)) = <<>> THEN <<>>
    ELSE IF Head(Drop(src, Leading(src, Blank))) = "\n"
    THEN CodeLine(Tail(Drop(src, Leading(src, Blank))))
    ELSE IF Head(Drop(src, Leading(src, Blank))) = "#"
    THEN CodeLine(Drop(src, Leading(src, Items \ {"\n"})))
    ELSE src

\* the number of spaces that line begins with
LeadingSpaces == Leading(CodeLine(LineSource), {" "})

\* C21: when the next code line that begins outside brackets has a number n
\* of leading spaces that is not a multiple of 4, the scanner reports
\* InvalidIndent(n) and queues no token of that line; blank lines and comment
\* lines give no indentation error: InvalidIndent and WhitespaceAfterIndent
\* come from the leading whitespace of the code line only.
C21_InvalidIndentReported ==
    [][LineStart =>
         /\ LeadingSpaces % 4 # 0 =>
              /\ scan_err' = "InvalidIndent"
              /\ scan_err_n' = LeadingSpaces
              /\ \A i \in 1..Len(queue') :
                    queue'[i] \in {"InlineScopeEnd", "EndOfStatement", "ScopeStart"}
         /\ scan_err' = "InvalidIndent" => LeadingSpaces % 4 # 0
         /\ scan_err' = "WhitespaceAfterIndent" =>
              Leading(Drop(CodeLine(LineSource), LeadingSpaces), Blank) > 0
      ]_vars

\* ------------------------------------------------------------------------
\* Brackets

\* the characters of the input the scanner has consumed
Consumed == Len(text) - Len(source)

\* the positions of the opening brackets among the first k characters of the
\* input that no closing bracket among them has closed, innermost last
RECURSIVE Unclosed(_)
Unclosed(k) ==
    IF k = 0 THEN <<>>
    ELSE IF text[k] \in {"(", "["} THEN Append(Unclosed(k - 1), k)
    ELSE IF text[k] \in {")", "]"} /\ Unclosed(k - 1) # <<>> THEN Pop(Unclosed(k - 1))
    ELSE Unclosed(k - 1)

\* the closing bracket c closes the innermost of the opening brackets at
\* the positions open
Closes(c, open) ==
    /\ open # <<>>
    /\ text[Peek(open)] = (IF c = ")" THEN "(" ELSE "[")

\* C22: a closing bracket that does not match the innermost unclosed opening
\* bracket, or comes with none open, gives UnmatchedClosingBracket at its own
\* position; the end of the input with a bracket open gives
\* UnmatchedOpeningBracket at the position of the innermost unclosed opening
\* bracket; EndOfInput is queued only with no bracket open.
C22_BracketsNest ==
    [][/\ (AddTokens /\ source # <<>> /\ Head(source) \in {")", "]"}) =>
            IF Closes(Head(source), Unclosed(Consumed))
            THEN /\ scan_err' = ""
                 /\ Peek(queue') = (IF Head(source) = ")" THEN "RParen" ELSE "RBracket")
            ELSE /\ scan_err' = "UnmatchedClosingBracket"
                 /\ scan_err_loc' = Consumed + 1
       /\ (AddTokens /\ source = <<>>) =>
            IF Unclosed(Len(text)) # <<>>
            THEN /\ scan_err' = "UnmatchedOpeningBracket"
                 /\ scan_err_loc' = Peek(Unclosed(Len(text)))
                 /\ queue' = <<>>
            ELSE /\ scan_err' = ""
                 /\ Peek(queue') = "EndOfInput"
       /\ (\E i \in 1..Len(queue') : queue'[i] = "EndOfInput") =>
            bracket_stack' = <<>> /\ Unclosed(Len(text)) = <<>>
      ]_vars

\* C22 (witness): the input ended with two brackets open, and the error is at
\* the inner one, which lies after the outer one still on the stack.
C22_InnerOpenerReported ==
    /\ scan_err = "UnmatchedOpeningBracket"
    /\ bracket_stack # <<>>
    /\ scan_err_loc > Peek(bracket_stack).loc
    /\ scan_err_loc = Peek(Unclosed(Len(text)))

\* the scanner is about to read a newline, or a `->` with a newline after
\* it, while a bracket is open
NewlineInBrackets ==
    /\ AddTokens
    /\ bracket_stack # <<>>
    /\ source # <<>>
    /\ Head(source) = "\n" \/ ArrowEndsLine

\* C23: while a bracket is open a newline, also one directly after `->`,
\* queues no EndOfStatement, ScopeStart or ScopeEnd, gives no indentation
\* error and leaves indent_level as it was.
C23_NewlineInBracketsIsWhitespace ==
    [][NewlineInBrackets =>
         /\ \A i \in 1..Len(queue') :
               queue'[i] \notin {"EndOfStatement", "ScopeStart", "ScopeEnd"}
         /\ scan_err' = ""
         /\ indent_level' = indent_level
      ]_vars

\* ------------------------------------------------------------------------
\* Inline scopes

\* the scanner is about to read a comma or a closing bracket with an inline
\* scope open
EndsInline ==
    /\ AddTokens
    /\ inline_scope_stack # <<>>
    /\ source # <<>>
    /\ Head(source) \in {",", ")", "]"}

\* a bracket opened after the `->` of the innermost inline scope is still
\* open: the scanner is nested inside that scope
NestedInInline ==
    /\ Unclosed(Consumed) # <<>>
    /\ Peek(Unclosed(Consumed)) > Peek(inline_scope_stack).loc

\* C24: a comma or a closing bracket inside brackets opened within the
\* inline scope leaves the scope open; the first comma or closing bracket at
\* the scope's own nesting level closes it, with one InlineScopeEnd for each
\* entry of the inline-scope stack queued before the token.
C24_InlineScopeRespectsNesting ==
    [][EndsInline =>
         IF NestedInInline
         THEN /\ inline_scope_stack' = inline_scope_stack
              /\ \A i \in 1..Len(queue') : queue'[i] # "InlineScopeEnd"
         ELSE /\ inline_scope_stack' = <<>>
              /\ Len(queue') >= Len(inline_scope_stack)
              /\ SubSeq(queue', 1, Len(inline_scope_stack))
                   = [i \in 1..Len(inline_scope_stack) |-> "InlineScopeEnd"]
      ]_vars

\* ------------------------------------------------------------------------
\* Numbers

\* the radix the prefix of the input names
LiteralRadix ==
    IF Len(text) < 2 \/ text[1] # "0" THEN 10
    ELSE IF text[2] \in {"b", "B"} THEN 2
    ELSE IF text[2] \in {"o", "O"} THEN 8
    ELSE IF text[2] \in {"x", "X"} THEN 16
    ELSE 10

\* the input after the prefix
LiteralDigits == IF LiteralRadix = 10 THEN text ELSE SubSeq(text, 3, Len(text))

\* the digits of a radix, in either case
ValidDigits(radix) ==
    {LowerDigits[i] : i \in 1..radix} \cup {UpperDigits[i] : i \in 1..radix}

\* a non-empty string of digits of the radix with single underscores between
\* digits
WellFormed(digits, radix) ==
    /\ digits # <<>>
    /\ \A i \in 1..Len(digits) :
          \/ digits[i] \in ValidDigits(radix)
          \/ /\ digits[i] = "_"
             /\ 1 < i /\ i < Len(digits)
             /\ digits[i - 1] # "_" /\ digits[i + 1] # "_"

DigitValue(c) ==
    (CHOOSE i \in 1..16 : LowerDigits[i] = c \/ UpperDigits[i] = c) - 1

IsDigit(c) == c # "_"

\* the sum of digit times radix to the power of its place, from digit i on
RECURSIVE PlaceValue(_, _, _)
PlaceValue(digits, radix, i) ==
    IF i > Len(digits) THEN 0
    ELSE DigitValue(digits[i]) * radix ^ (Len(digits) - i) + PlaceValue(digits, radix, i + 1)

\* the digits read in the radix, underscores removed
Interpreted == PlaceValue(SelectSeq(LiteralDigits, IsDigit), LiteralRadix, 1)

\* the scanner has worked on the input
Scanned == source # text \/ scan_err # ""

\* C25: a non-empty string of digits valid in radix 2, 8, 10 or 16, in either
\* case and with single underscores between digits, after the matching
\* prefix, is scanned as one Int token whose value is the digits read in that
\* radix.
C25_RadixLiteralIsInt ==
    (WellFormed(LiteralDigits, LiteralRadix) /\ Scanned) =>
        /\ scan_err = ""
        /\ source = <<>>
        /\ Head(tokens \o queue) = "Int"
        /\ \A i \in 2..Len(tokens \o queue) : (tokens \o queue)[i] \notin {"Int", "Float"}
        /\ number = [kind |-> "Int", value |-> Interpreted]

\* ------------------------------------------------------------------------
\* Termination of the scanner

\* the iterator has returned EndOfInput or an error
ScanDone == previous_token = "EndOfInput" \/ scan_err # ""

\* C26: every call of add_tokens_to_queue that queues no token and returns
\* no error consumes at least one character of the input, and the token
\* sequence ends: EndOfInput or an error is eventually returned.
C26_ScanTerminates ==
    /\ [][(AddTokens /\ queue' = <<>> /\ scan_err' = "") => Len(source') < Len(source)]_vars
    /\ <>ScanDone

\* C26 (witness): EndOfInput has been returned for an input with blank lines
\* and comments, whose calls queue no token.
C26_EndAfterEmptyCalls ==
    /\ previous_token = "EndOfInput"
    /\ contains(text, "#")
    /\ \E i \in 1..(Len(text) - 1) : text[i] = "\n" /\ text[i + 1] = "\n"

\* ------------------------------------------------------------------------
\* The grouping of operators by the parser

\* the line the parser was given: the tokens before EndOfStatement
Line == SubSeq(tokens, 1, Len(tokens) - 2)

\* Parser::statements parses the first statement of the line
FirstStatement == ParseStatement /\ token_stream = Peekable(tokens)

\* the positions of the operators of a line of operands joined by operators
OperatorsOf(l) == {i \in 1..Len(l) : i % 2 = 0}

\* the operators of the line that bind least
Loosest(l) ==
    {i \in OperatorsOf(l) :
        \A j \in OperatorsOf(l) : get_binary_precedence(l[i]) <= get_binary_precedence(l[j])}

\* the operator applied last: of the operators that bind least the first when
\* they are right-associative, the last when they are not
Root(l) ==
    IF \A i \in Loosest(l) : l[i] \in {"Caret", "Equal"}
    THEN CHOOSE i \in Loosest(l) : \A j \in Loosest(l) : i <= j
    ELSE CHOOSE i \in Loosest(l) : \A j \in Loosest(l) : i >= j

\* the expression of a line by the precedence table, first standing for its
\* first operand
RECURSIVE GroupedFrom(_, _)
GroupedFrom(l, first) ==
    IF Len(l) = 1 THEN first
    ELSE new_binary_op(GroupedFrom(SubSeq(l, 1, Root(l) - 1), first),
                       l[Root(l)],
                       GroupedFrom(SubSeq(l, Root(l) + 1, Len(l)),
                                   new_ident(l[Root(l) + 1])))

Grouped(l) == GroupedFrom(l, new_ident(l[1]))

\* C27: a line of operands joined by binary operators parses to exactly one
\* expression statement, grouped by the precedence table with operators of
\* equal precedence that are not right-associative grouped to the left, and
\* the parse consumes every token up to EndOfStatement.
C27_GroupedByPrecedence ==
    [][(FirstStatement /\ Line \in BinaryLines) =>
         /\ parsed' = <<new_expr(Grouped(Line))>>
         /\ token_stream' = <<"EndOfStatement">>
         /\ parse_result' = ""]_vars

\* the precedences of the operators of the line rise from left to right
Rising(l) ==
    \A i, j \in OperatorsOf(l) :
        i < j => get_binary_precedence(l[i]) < get_binary_precedence(l[j])

\* C27 (what holds): a line whose operators rise in precedence parses to the
\* one statement the table gives.
C27_RisingLineGrouped ==
    [][(FirstStatement /\ Line \in BinaryLines /\ Rising(Line)) =>
         /\ parsed' = <<new_expr(Grouped(Line))>>
         /\ token_stream' = <<"EndOfStatement">>
         /\ parse_result' = ""]_vars

\* C27 (the divergence): `a - b - c` has been parsed: two statements, a - b
\* and -c.
C27_SplitInTwo ==
    /\ parse_result = "Ok"
    /\ Line = <<"a", "Minus", "b", "Minus", "c">>
    /\ parsed = <<new_expr(new_binary_op(new_ident("a"), "Minus", new_ident("b"))),
                  new_expr(new_unary_op("Minus", new_ident("c")))>>

\* C28: a unary operator applies to its immediate operand only and binds
\* tighter than a binary operator of precedence below 9: a line `u x o y`
\* parses as BinaryOp(UnaryOp(u, x), o, y).
C28_UnaryBindsOperand ==
    [][(FirstStatement /\ Line \in UnaryLines /\ Len(Line) = 4
          /\ get_binary_precedence(Line[3]) < 9) =>
         parsed' = <<new_expr(new_binary_op(new_unary_op(Line[1], new_ident(Line[2])),
                                            Line[3], new_ident(Line[4])))>>]_vars

\* C28 (the divergence): `-a + b` has been parsed as -(a + b).
C28_UnaryTakesAll ==
    /\ parse_result = "Ok"
    /\ Line = <<"Minus", "a", "Plus", "b">>
    /\ parsed = <<new_expr(new_unary_op("Minus",
                     new_binary_op(new_ident("a"), "Plus", new_ident("b"))))>>

\* every operator of the line is the operator o
ChainOf(l, o) == Len(l) >= 3 /\ \A i \in OperatorsOf(l) : l[i] = o

\* the operands of a line grouped from the right
RECURSIVE RightNested(_)
RightNested(l) ==
    IF Len(l) = 1 THEN new_ident(l[1])
    ELSE new_binary_op(new_ident(l[1]), l[2], RightNested(SubSeq(l, 3, Len(l))))

\* C29: `^` and `=` are right-associative: a line of operands joined by `^`,
\* or joined by `=`, parses as a single expression grouped from the right,
\* a ^ (b ^ c) and a = (b = c).
C29_RightAssociative ==
    [][(FirstStatement /\ Line \in BinaryLines
          /\ (ChainOf(Line, "Caret") \/ ChainOf(Line, "Equal"))) =>
         /\ parsed' = <<new_expr(RightNested(Line))>>
         /\ token_stream' = <<"EndOfStatement">>
         /\ parse_result' = ""]_vars

\* C29 (witness): `a ^ b ^ c` has been parsed to one statement, a ^ (b ^ c).
C29_CaretChainParsed ==
    /\ parse_result = "Ok"
    /\ Line = <<"a", "Caret", "b", "Caret", "c">>
    /\ parsed = <<new_expr(new_binary_op(new_ident("a"), "Caret",
                     new_binary_op(new_ident("b"), "Caret", new_ident("c"))))>>

\* ------------------------------------------------------------------------
\* Continuation in the REPL

\* Repl::eval has evaluated code and the evaluation failed
EvalFailed == evals' = evals + 1 /\ ~exe_result'.ok

\* the errors the REPL is said to continue on
Continuable(err) ==
    \/ /\ err.src = "ScanErr"
       /\ err.kind \in {"ExpectedBlock", "ExpectedIndentedBlock",
                        "UnmatchedOpeningBracket", "UnterminatedStr"}
    \/ err.src = "ParseErr" /\ err.kind = "ExpectedBlock"

\* C30 (as stated): after a failed evaluation the REPL reads on at the `+`
\* prompt exactly when the error is the scan error ExpectedBlock,
\* ExpectedIndentedBlock, UnmatchedOpeningBracket or UnterminatedStr or the
\* parse error ExpectedBlock; after every other error it is back at the
\* primary prompt and has not exited.
C30_ContinuesOnEveryFailure ==
    [][EvalFailed =>
         /\ prompt' = "continuation" <=> Continuable(exe_result')
         /\ prompt' \in {"continuation", "primary"}
         /\ exit_result' = ""]_vars

\* C30 (amended): the same of the evaluation of a line read at the primary
\* prompt; the evaluation that ends a continuation is back at the primary
\* prompt after every error, a continuable one included.
C30_ContinuesAtPrimaryOnly ==
    [][EvalFailed =>
         /\ prompt' = "continuation" <=> (~no_continue' /\ Continuable(exe_result'))
         /\ no_continue' <=> prompt = "continuation"
         /\ prompt' \in {"continuation", "primary"}
         /\ exit_result' = ""]_vars

\* C30 (witness): the REPL reads at the `+` prompt after the parse error
\* ExpectedBlock.
C30_ContinuingAfterParseErr ==
    /\ prompt = "continuation"
    /\ exe_result = ExeErr("ParseErr", "ExpectedBlock")
    /\ ~no_continue

\* ------------------------------------------------------------------------
\* Int division

\* the method of Int has been called and has returned or panicked
Called == outcome.kind # "None"

\* the floor of self / rhs, rhs an Int or a Float other than zero
FloorOfQuotient(self, rhs) ==
    IF rhs.v > 0 THEN (self.v * Den(rhs)) \div rhs.v
    ELSE (0 - self.v * Den(rhs)) \div (0 - rhs.v)

\* C31: for an Int a, `a / b` with b an Int or a Float is always a Float and
\* `a // b` is always the Int that is the floor of the quotient (rounded
\* toward negative infinity); with any other right operand both operations
\* return a TypeErr.
C31_DivisionKinds ==
    Called /\ operation.op \in {"div", "floor_div"} =>
        IF operation.rhs.t \in {"Int", "Float"}
        THEN /\ outcome.kind = "Ok"
             /\ operation.op = "div" => outcome.obj.t = "Float"
             /\ operation.op = "floor_div" =>
                    /\ outcome.obj.t = "Int"
                    /\ operation.rhs.v # 0
                    /\ outcome.obj.v = FloorOfQuotient(operation.self, operation.rhs)
        ELSE outcome = TypeErr

\* what does hold of division: `/` is a Float or a TypeErr as stated, and
\* `//` by a non-zero b is the quotient rounded toward zero
C31_DivisionTruncates ==
    Called /\ operation.op \in {"div", "floor_div"} =>
        IF operation.rhs.t \in {"Int", "Float"}
        THEN /\ operation.op = "div" =>
                    outcome.kind = "Ok" /\ outcome.obj.t = "Float"
             /\ operation.op = "floor_div" /\ operation.rhs.v # 0 =>
                    /\ outcome.kind = "Ok" /\ outcome.obj.t = "Int"
                    /\ Abs(outcome.obj.v) =
                         Abs(operation.self.v * Den(operation.rhs)) \div Abs(operation.rhs.v)
                    /\ outcome.obj.v * operation.rhs.v * operation.self.v >= 0
             /\ operation.op = "floor_div" /\ operation.rhs.v = 0 => outcome = Panicked
        ELSE outcome = TypeErr

\* -3 // 2 has been computed: the quotient -1.5 became -1
C31_NegativeQuotientRoundedUp ==
    /\ operation = [op |-> "floor_div", self |-> IntObj(0 - 3), rhs |-> IntObj(2)]
    /\ outcome = Returned(IntObj(0 - 1))

\* ------------------------------------------------------------------------
\* Int arithmetic is total

\* C40: over Int operands each of add, sub, mul, modulo, pow, div and
\* floor_div returns Ok(object) or Err(RuntimeErr), also for a zero divisor
\* and a negative exponent; none of them panics.
C40_IntArithmeticTotal ==
    Called /\ operation.rhs.t = "Int" => outcome.kind \in {"Ok", "TypeErr"}

\* the panics over Int operands are exactly: modulo and floor_div by zero,
\* pow with a negative exponent
C40_PanicsOfIntArithmetic ==
    Called /\ operation.rhs.t = "Int" =>
        (outcome = Panicked <=>
            \/ operation.op \in {"modulo", "floor_div"} /\ operation.rhs.v = 0
            \/ operation.op = "pow" /\ operation.rhs.v < 0)

\* ------------------------------------------------------------------------
\* Int truthiness

\* the VM is about to execute op, which needs no scope exit, on an Int
OnInt(op) ==
    /\ result.kind = "Running"
    /\ Top.ip < Len(CurChunk)
    /\ CurInst.op = op
    /\ CurInst.c = 0
    /\ value_stack # <<>>
    /\ TopObj.ok
    /\ TopObj.obj.t = "Int"
    /\ steps' = steps + 1

\* where the instruction pointer of the running frame is after the step
ip_after == frames'[Len(frames')].ip

\* C39: as_bool of an Int is true exactly when its value is not zero:
\* JumpIfNot on Int 0 jumps and on another Int falls through, JumpIfElse
\* takes its first address for non-zero and its second for zero, and the
\* unary AsBool maps 0 to false and every other Int to true.
C39_IntTruthiness ==
    [][/\ OnInt("JumpIfNot") =>
            ip_after = IF TopObj.obj.v = 0 THEN CurInst.a ELSE Next_ip
       /\ OnInt("JumpIfElse") =>
            ip_after = IF TopObj.obj.v # 0 THEN CurInst.a ELSE CurInst.b
       /\ OnInt("UnaryOp") /\ CurInst.s = "AsBool" =>
            Peek(value_stack') = Temp(bool_obj_from_bool(TopObj.obj.v # 0))]_vars

\* what the VM does: zero is the one Int that is true
C39_ZeroIsTrue ==
    [][/\ OnInt("JumpIfNot") =>
            ip_after = IF TopObj.obj.v # 0 THEN CurInst.a ELSE Next_ip
       /\ OnInt("JumpIfElse") =>
            ip_after = IF TopObj.obj.v = 0 THEN CurInst.a ELSE CurInst.b
       /\ OnInt("UnaryOp") /\ CurInst.s = "AsBool" =>
            Peek(value_stack') = Temp(bool_obj_from_bool(TopObj.obj.v = 0))]_vars

\* the chunk of conditions has run to its end: AsBool of Int 2 left false
C39_TwoIsFalse ==
    /\ program = IntConditions
    /\ result.kind = "Idle"
    /\ Peek(value_stack) = Temp(FalseObj)

\* ------------------------------------------------------------------------
\* The continuation of the REPL

\* a line is read at the `+` prompt and the accumulated input is evaluated
EvaluatedAtContinuation == prompt = "continuation" /\ evals' = evals + 1

\* the last n lines of the evaluated text
LastLines(n) == SubSeq(evaluated', Len(evaluated') - n + 1, Len(evaluated'))

\* C33: at the `+` prompt the input grows line by line and is evaluated again
\* only after two successive blank lines; a blank line followed by a line
\* that is not blank does not trigger the evaluation.
C33_EvaluatedAfterTwoBlankLines ==
    [][/\ prompt = "continuation" /\ prompt' = "continuation" =>
            \E line \in ReplLines : repl_input' = Append(repl_input, line)
       /\ EvaluatedAtContinuation =>
            /\ Len(evaluated') >= 2
            /\ LastLines(2) = <<"", "">>]_vars

\* what holds: the input is evaluated with the first line read after a blank
\* line, blank or not
C33_EvaluatedAfterOneBlankLine ==
    [][/\ prompt = "continuation" /\ prompt' = "continuation" =>
            \E line \in ReplLines : repl_input' = Append(repl_input, line)
       /\ EvaluatedAtContinuation =>
            /\ Len(evaluated') >= 3
            /\ evaluated' = Append(repl_input, evaluated'[Len(evaluated')])
            /\ LastLines(2)[1] = ""
            /\ blank_line_count = 1]_vars

\* a blank line and then a line of code have been read, and the input has
\* been evaluated
C33_EvaluatedAfterCode ==
    /\ evaluated = <<"x", "", "x">>
    /\ no_continue

\* ------------------------------------------------------------------------
\* Errors of the REPL and their diagnostics

\* an eval has returned from execute_text with an error
EvalFailedNow == evals' = evals + 1 /\ ~exe_result'.ok

\* C38: in incremental mode no error is dropped silently: every scan, parse
\* or compilation error whose diagnostic the executor suppresses is one on
\* which continue_on_err is true, so after a failed evaluation the user has
\* seen a diagnostic or is at the `+` prompt.
C38_NoErrorDroppedSilently ==
    [][EvalFailedNow =>
         /\ ignore_err(exe_result') => continue_on_err(exe_result')
         /\ diagnostic' \/ prompt' = "continuation"]_vars

\* what holds: the scan and parse errors of an evaluation at the primary
\* prompt are printed or continued, and every runtime error is printed
C38_ScanAndParseErrsAtPrimary ==
    [][EvalFailedNow =>
         /\ exe_result'.src # "CompErr" =>
              (ignore_err(exe_result') => continue_on_err(exe_result'))
         /\ exe_result'.src # "CompErr" /\ ~no_continue' =>
              diagnostic' \/ prompt' = "continuation"
         /\ exe_result'.src = "RuntimeErr" => diagnostic']_vars

\* a jump to a label that is nowhere has failed to compile: no diagnostic,
\* and the REPL is back at its primary prompt
C38_MissingLabelUnseen ==
    /\ exe_result = ExeErr("CompErr", "LabelNotFoundInScope")
    /\ ~diagnostic
    /\ prompt = "primary"

\* ------------------------------------------------------------------------
\* The indent level and the scope tokens

\* every token queued so far, in the order of queueing
Queued == tokens \o queue

\* the ScopeStart tokens of toks less its ScopeEnd tokens
OpenScopes(toks) ==
    Cardinality({i \in 1..Len(toks) : toks[i] = "ScopeStart"})
      - Cardinality({i \in 1..Len(toks) : toks[i] = "ScopeEnd"})

\* every ScopeStart of toks has one later ScopeEnd of its own
ScopesMatched(toks) ==
    /\ OpenScopes(toks) = 0
    /\ \A n \in 1..Len(toks) : OpenScopes(SubSeq(toks, 1, n)) >= 0

EndOfInputQueued == \E i \in 1..Len(Queued) : Queued[i] = "EndOfInput"

\* C37: at every point of a scan indent_level is the number of ScopeStart
\* tokens queued so far less the number of ScopeEnd tokens queued so far; in
\* a scan that reaches EndOfInput without error every ScopeStart has exactly
\* one matching later ScopeEnd and indent_level is 0.
C37_IndentLevelCountsScopes ==
    /\ indent_level = OpenScopes(Queued)
    /\ scan_err = "" /\ EndOfInputQueued =>
         indent_level = 0 /\ ScopesMatched(Queued)

\* C37 as it holds: the same, at every point of a scan that has returned no
\* error; the `->` arm queues its ScopeStart before expect_indent fails.
C37_IndentLevelCountsScopesUntilErr ==
    /\ scan_err = "" => indent_level = OpenScopes(Queued)
    /\ scan_err # "" =>
         indent_level \in {OpenScopes(Queued), OpenScopes(Queued) - 1}
    /\ scan_err = "" /\ EndOfInputQueued =>
         indent_level = 0 /\ ScopesMatched(Queued)

\* a block in a block has been scanned to the end of the input
C37_NestedBlocksClosed ==
    /\ scan_err = ""
    /\ previous_token = "EndOfInput"
    /\ Cardinality({i \in 1..Len(tokens) : tokens[i] = "ScopeStart"}) = 2
    /\ \E i \in 1..(Len(tokens) - 1) :
         tokens[i] = "ScopeStart" /\ tokens[i + 1] # "ScopeStart"
           /\ OpenScopes(SubSeq(tokens, 1, i)) = 2

\* ------------------------------------------------------------------------
\* Scope exits of compiled chunks

\* the scopes the instruction about to run exits: one for a ScopeEnd, the
\* exit count for a Jump
ExitCount ==
    IF CurInst.op = "ScopeEnd" THEN 1
    ELSE IF CurInst.op = "Jump" THEN CurInst.c
    ELSE 0

\* the VM, running a chunk the compiler emitted, executes a scope exit
ExitsScopes ==
    /\ program.source
    /\ result.kind = "Running"
    /\ Top.ip < Len(CurChunk)
    /\ ExitCount >= 1
    /\ steps' = steps + 1

\* the value stack as it was at the ScopeStart of the outermost of the count
\* scopes being exited
ScopeBase(count) == scope_stack[Len(scope_stack) - count + 1]

\* C34: whenever the VM, running a compiled chunk, exits one or more scopes
\* (ScopeEnd, or a Jump with an exit count of at least 1), the value stack
\* holds a value pushed inside the scope being exited: exit_scopes does not
\* panic and the value it keeps is not one of an enclosing scope.
C34_ScopeExitHasValue ==
    [][ExitsScopes =>
         /\ Len(scope_stack) >= ExitCount
         /\ Len(value_stack) - (ExitCount - 1) > ScopeBase(ExitCount)
         /\ Len(value_stack) > Peek(scope_stack)
         /\ result'.kind # "Panic"]_vars

\* a jump that is the first statement of a block has left the block with
\* nothing on the value stack: exit_scopes has panicked
C34_JumpFromBlockPanics ==
    /\ program = Source(<<SExpr(Block(<<SJump("L")>>)), SLabel("L", LitNil)>>)
    /\ runs = 1
    /\ result.kind = "Panic"
    /\ value_stack = <<>>

\* ------------------------------------------------------------------------
\* break with a value, and the stack effect of a loop

\* the programs `loop -> break 7`, `loop -> (if true -> break 7); continue`
\* and `loop -> 1; (if true -> break 7)`
BreakPrograms == {Source(P_break_direct), Source(P_break_value), Source(P_break_after_value)}

\* C35: `break v` inside k >= 1 block scopes nested in the loop body becomes
\* Jump(after, k + 1), which exits all k + 1 scopes and leaves v as the one
\* value on top of the value stack after the loop, as a break that is a
\* statement of the loop body itself does.
C35_BreakLeavesValue ==
    program \in BreakPrograms =>
        /\ result.kind # "Panic"
        /\ \E i \in 1..Len(chunk) :
             /\ chunk[i].op = "Jump"
             /\ chunk[i].a >= i
             /\ chunk[i].c = (IF program = Source(P_break_direct) THEN 1 ELSE 2)
        /\ result.kind = "Halted" => value_stack = <<Temp(IntObj(7))>>

\* what holds: the break that is a statement of the loop body leaves 7; the
\* break in the `if` block drops 7 with the truncate of exit_scopes(2), which
\* then panics on the empty stack or keeps the value below
C35_NestedBreakDropsValue ==
    /\ program = Source(P_break_direct) =>
         /\ result.kind \in {"Running", "Halted"}
         /\ result.kind = "Halted" => value_stack = <<Temp(IntObj(7))>>
    /\ program = Source(P_break_value) => result.kind \in {"Running", "Panic"}
    /\ program = Source(P_break_after_value) =>
         /\ result.kind \in {"Running", "Halted"}
         /\ result.kind = "Halted" => value_stack = <<Temp(IntObj(1))>>

\* the break in the `if` block has run: exit_scopes(2) has panicked
C35_NestedBreakPanicked ==
    /\ program = Source(P_break_value)
    /\ result.kind = "Panic"
    /\ Len(value_stack) = 1
    /\ TopObj = Ok(IntObj(7))

\* programs that are one loop: the condition true or false, the body of one
\* or two simple statements
LoopAlone == {Source(<<s>>) : s \in {SExpr(Loop(c, b)) : c \in {LitTrue, LitFalse},
                                                       b \in Bodies(LoopAtoms)}}

\* programs `x = 0`, a loop that counts x to 3, `x`
CountingLoops == {Source(P_loop3), Source(P_loop_continue)}

\* C36: a loop has a constant stack effect: when it finishes the value stack
\* is exactly one entry larger than when it started, whether the body ran
\* zero, one or many times and whether the iterations ended normally or by
\* continue.
C36_LoopPushesOne ==
    result.kind = "Halted" =>
        /\ program \in LoopAlone => Len(value_stack) = 1
        /\ program \in CountingLoops => Len(value_stack) = 3

\* what holds: a loop whose condition is false at once pushes nothing, and
\* each pass of the body leaves one value
C36_LoopPushesPerPass ==
    result.kind = "Halted" =>
        /\ program \in LoopAlone =>
             Len(value_stack) = (IF program.statements[1].expr.expr = LitFalse THEN 0 ELSE 1)
        /\ program \in CountingLoops => Len(value_stack) = 5

\* the loop whose passes end by continue has counted to 3
C36_ContinueLoopEnded ==
    /\ program = Source(P_loop_continue)
    /\ result.kind = "Halted"
    /\ Len(value_stack) = 5

\* ------------------------------------------------------------------------
\* Conditionals

\* the value of the block `if (a = v1) -> 1 else if (g = v2) -> 2 else -> 3`
\* chooses, nil when it chooses none
Chosen(v1, v2, has_default) ==
    IF v1 = LitTrue THEN IntObj(1)
    ELSE IF v2 = LitTrue THEN IntObj(2)
    ELSE IF has_default THEN IntObj(3)
    ELSE NilObj

\* the module's namespace holds what the condition assigned
Evaluated(name, v) == ns_stack[1][name] = bool_obj_from_bool(v = LitTrue)

\* C32: a compiled conditional evaluates the conditions in source order,
\* runs only the block of the first branch whose condition is truthy (no
\* later condition, not the default), runs the default only when no
\* condition is truthy, and leaves exactly one value: that of the chosen
\* block, or nil when no branch is taken and there is no default.
C32_FirstTruthyBranch ==
    \A v1 \in {LitTrue, LitFalse}, v2 \in {LitTrue, LitFalse}, d \in BOOLEAN :
        program = Source(P_conditional(v1, v2, d)) =>
            /\ result.kind \in {"Running", "Halted"}
            /\ ns_stack[1]["g"] # Undeclared => Evaluated("a", v1) /\ v1 = LitFalse
            /\ Len(value_stack) <= 1
            /\ value_stack # <<>> /\ TopObj.obj.t = "Int" =>
                 TopObj.obj = Chosen(v1, v2, d)
            /\ result.kind = "Halted" =>
                 /\ Evaluated("a", v1)
                 /\ v1 = LitFalse => Evaluated("g", v2)
                 /\ Len(value_stack) = 1
                 /\ TopObj = Ok(Chosen(v1, v2, d))

\* the second branch has been chosen: its condition was evaluated after the
\* first, and the value of its block is the one value left
C32_SecondBranchTaken ==
    /\ program = Source(P_conditional(LitFalse, LitTrue, TRUE))
    /\ result.kind = "Halted"
    /\ ns_stack[1]["a"] = FalseObj
    /\ ns_stack[1]["g"] = TrueObj
    /\ value_stack = <<Temp(IntObj(2))>>

====
